---- MODULE Spec2Model ----
(***************************************************************************)
(* Knative Continuous Delivery: the rollout policy validator, the policy   *)
(* evaluator, the traffic planner and the reconciliation scheduler.        *)
(*                                                                         *)
(* Time is counted in ticks, TicksPerSecond ticks to the second, so that   *)
(* the sub-second part of an elapsed time.Duration is kept: a float64      *)
(* comparison  float64(cum) > elapsed/second  is  cum*TicksPerSecond > e.  *)
(* A Go pointer is a sequence: Nil is <<>> and a pointer to v is <<v>>.    *)
(***************************************************************************)
EXTENDS Integers, Sequences, FiniteSets, TLC

VARIABLES
    now,          \* c.clock.Now(), in ticks
    revisionMap,  \* the Revisions of the Configuration: name -> [created, owner]
    cfg,          \* the Configuration: status names and the policy annotation
    policy,       \* the v1alpha1.Policy object the annotation resolves to
    route,        \* the Route: [name, spec, status] (traffic lists)
    policystate,  \* the PolicyState object, or NoObject
    workqueue,    \* due times of the follow-ups pending for the Configuration
    result,       \* what the last ReconcileKind did
    history,      \* the Revisions of the plan published last, and those dropped so far
    call          \* the last call of a function examined on its own

vars == <<now, revisionMap, cfg, policy, route, policystate, workqueue, result, history, call>>

-----------------------------------------------------------------------------
(* Bounds of the model *)

TicksPerSecond == 2
MaxRevs == 3
MaxCreate == 1
MaxNow == 6
MaxStages == 3
MaxThreshold == 2
ScenarioSeconds == 130
MaxAnnotation == 4
FaultsNow == 4
MaxBackoff == 1

(* Program constants *)

MaxInt32 == 2147483647
WaitForReady == 5

Nil == << >>
Ptr(v) == <<v>>
NoObject == [name |-> ""]
NoRevision == ""

KCDNamespace == "knative-serving"
KCDName == "knative-continuous-delivery"

-----------------------------------------------------------------------------
(* v1alpha1.Policy and its validation *)

Stage(percent, threshold) == [Percent |-> percent, Threshold |-> threshold]

PolicySpec(mode, defaultThreshold, stages) ==
    [Mode |-> mode, DefaultThreshold |-> defaultThreshold, Stages |-> stages]

\* One iteration of the loop of Validate over the stages: the error the stage
\* raises (the loop breaks on it), or "" when the stage passes.
ValidateStage(s, prev) ==
    IF s.Percent < prev THEN "Rollout percentages must be in increasing order"
    ELSE IF s.Percent < 0 \/ s.Percent >= 100 THEN "ErrOutOfBoundsValue"
    ELSE IF s.Threshold # Nil /\ s.Threshold[1] <= 0
         THEN "Optional threshold value must be a positive integer"
    ELSE ""

RECURSIVE ValidateStages(_, _, _)
ValidateStages(stages, i, prev) ==
    IF i > Len(stages) THEN << >>
    ELSE LET e == ValidateStage(stages[i], prev)
         IN  IF e # "" THEN <<e>>
             ELSE ValidateStages(stages, i + 1, stages[i].Percent)

\* Policy.Validate: the errors accumulated in the returned FieldError, in
\* order; the empty sequence is the nil error.
Validate(p) ==
    LET mode == IF p.Mode # "time" THEN <<"ErrInvalidValue spec.mode">> ELSE << >>
        dflt == IF p.DefaultThreshold <= 0
                THEN <<"DefaultThreshold value is mandatory and must be a positive integer">>
                ELSE << >>
    IN  IF Len(p.Stages) < 1
        THEN mode \o dflt \o <<"There must be at least one rollout stage in a Policy">>
        ELSE mode \o dflt \o ValidateStages(p.Stages, 1, 0)

-----------------------------------------------------------------------------
(* The policy evaluator (policy.go) *)

\* translatePolicy: the v1alpha1.Policy as the reconciler's Policy struct
translatePolicy(p) ==
    [Mode |-> p.Mode, Stages |-> p.Stages, DefaultThreshold |-> p.DefaultThreshold]

\* extra := p.DefaultThreshold; if s.Threshold != nil { extra = *s.Threshold }
stageThreshold(p, s) == IF s.Threshold # Nil THEN s.Threshold[1] ELSE p.DefaultThreshold

\* explicitLoop with the comparison turned round: "metricCumulative <= metric"
RECURSIVE explicitLoop_Inverted(_, _, _, _)
explicitLoop_Inverted(p, k, cum, elapsed) ==
    IF k > Len(p.Stages) THEN 100
    ELSE LET c == cum + stageThreshold(p, p.Stages[k])
         IN  IF c * TicksPerSecond <= elapsed THEN p.Stages[k].Percent
             ELSE explicitLoop_Inverted(p, k + 1, c, elapsed)

\* explicitLoop with ">=" for ">": a threshold reached is not yet crossed
RECURSIVE explicitLoop_AtBoundary(_, _, _, _)
explicitLoop_AtBoundary(p, k, cum, elapsed) ==
    IF k > Len(p.Stages) THEN 100
    ELSE LET c == cum + stageThreshold(p, p.Stages[k])
         IN  IF c * TicksPerSecond >= elapsed THEN p.Stages[k].Percent
             ELSE explicitLoop_AtBoundary(p, k + 1, c, elapsed)

\* explicitLoop with "metricCumulative = extra" for "metricCumulative += extra"
RECURSIVE explicitLoop_NoAccumulate(_, _, _, _)
explicitLoop_NoAccumulate(p, k, cum, elapsed) ==
    IF k > Len(p.Stages) THEN 100
    ELSE LET c == stageThreshold(p, p.Stages[k])
         IN  IF c * TicksPerSecond > elapsed THEN p.Stages[k].Percent
             ELSE explicitLoop_NoAccumulate(p, k + 1, c, elapsed)

\* The loop "for _, s := range p.Stages[1:]" of computeNewPercentExplicit from
\* stage index k (1-based; Stages[1:] starts at k = 2) with metricCumulative = cum.
RECURSIVE explicitLoop(_, _, _, _)
explicitLoop(p, k, cum, elapsed) ==
    IF k > Len(p.Stages) THEN 100
    ELSE LET c == cum + stageThreshold(p, p.Stages[k])
         IN  IF c * TicksPerSecond > elapsed THEN p.Stages[k].Percent
             ELSE explicitLoop(p, k + 1, c, elapsed)

computeNewPercentExplicit(p, elapsed) ==
    IF Len(p.Stages) = 0 THEN 100 ELSE explicitLoop(p, 2, 0, elapsed)

\* nextBiggerInt as the ceiling of f: f itself when f is whole
nextBiggerInt_Ceiling(fTicks) == (fTicks + TicksPerSecond - 1) \div TicksPerSecond

\* nextBiggerInt as int(f): the whole seconds of f and no more
nextBiggerInt_Truncated(fTicks) == fTicks \div TicksPerSecond

\* nextBiggerInt(f) = int(f) + 1 for the float f = fTicks / TicksPerSecond
\* (Go's int() truncates toward zero).
nextBiggerInt(fTicks) ==
    IF fTicks >= 0 THEN (fTicks \div TicksPerSecond) + 1
    ELSE 1 - ((0 - fTicks) \div TicksPerSecond)

RECURSIVE tillNextLoop(_, _, _, _)
tillNextLoop(p, k, cum, elapsed) ==
    IF k > Len(p.Stages) THEN MaxInt32
    ELSE LET c == cum + stageThreshold(p, p.Stages[k])
         IN  IF c * TicksPerSecond > elapsed
             THEN nextBiggerInt(c * TicksPerSecond - elapsed)
             ELSE tillNextLoop(p, k + 1, c, elapsed)

metricTillNextStage(p, elapsed) ==
    IF Len(p.Stages) = 0 THEN MaxInt32 ELSE tillNextLoop(p, 2, 0, elapsed)

-----------------------------------------------------------------------------
(* The traffic planner (modifyRouteSpec) and its companions *)

\* v1.TrafficTarget of a Revision: makeTrafficTargetList / the literals of
\* modifyRouteSpec
RevisionTarget(name, percent) ==
    [RevisionName |-> name, ConfigurationName |-> "",
     LatestRevision |-> Ptr(FALSE), Percent |-> Ptr(percent)]

\* the target {ConfigurationName, LatestRevision: true, Percent: 100}
LatestTarget(configurationName) ==
    [RevisionName |-> "", ConfigurationName |-> configurationName,
     LatestRevision |-> Ptr(TRUE), Percent |-> Ptr(100)]

\* the zero value of v1.TrafficTarget, as make([]v1.TrafficTarget, ln) holds it
BlankTarget ==
    [RevisionName |-> "", ConfigurationName |-> "", LatestRevision |-> Nil, Percent |-> Nil]

min(a, b) == IF b < a THEN b ELSE a

\* oldestRevision ranges over a Go map, whose iteration order is not fixed, and
\* keeps the first Revision it meets with the earliest creation time: any
\* Revision with the earliest creation time can be the result (NoRevision, the
\* nil pointer, for an empty map).
oldestRevision(r) ==
    IF DOMAIN r = {} THEN {NoRevision}
    ELSE {n \in DOMAIN r : \A m \in DOMAIN r : r[n].created <= r[m].created}

isNameListed(traffic, newRevName) ==
    \E i \in 1..Len(traffic) : traffic[i].RevisionName = newRevName

\* rosterOf with newRevName put in front of the names of the status traffic
rosterOf_Prepended(traffic, newRevName) ==
    LET names == [i \in 1..Len(traffic) |-> traffic[i].RevisionName]
    IN  IF isNameListed(traffic, newRevName) THEN names ELSE <<newRevName>> \o names

\* the roster: the names of the status traffic in order, newRevName appended
\* when it is not listed
rosterOf(traffic, newRevName) ==
    LET names == [i \in 1..Len(traffic) |-> traffic[i].RevisionName]
    IN  IF isNameListed(traffic, newRevName) THEN names ELSE Append(names, newRevName)

\* assignLoop with the truncation "traffic = traffic[i:]" left out
RECURSIVE assignLoop_NoTruncate(_, _, _, _, _, _, _, _)
assignLoop_NoTruncate(roster, i, traffic, alreadyAssigned, r, p, clockNow, oldest) ==
    IF i < 1 THEN [err |-> FALSE, traffic |-> traffic]
    ELSE IF roster[i] \notin DOMAIN r THEN [err |-> TRUE, traffic |-> traffic]
    ELSE IF roster[i] = oldest
         THEN [err |-> FALSE,
               traffic |-> [traffic EXCEPT ![i] = RevisionTarget(roster[i], 100 - alreadyAssigned)]]
    ELSE LET timeElapsed == clockNow - r[roster[i]].created
             want == computeNewPercentExplicit(p, timeElapsed)
             actual == min(want, 100 - alreadyAssigned)
             assigned == alreadyAssigned + actual
             filled == [traffic EXCEPT ![i] = RevisionTarget(roster[i], actual)]
         IN  IF assigned >= 100
             THEN [err |-> FALSE, traffic |-> filled]
             ELSE assignLoop_NoTruncate(roster, i - 1, filled, assigned, r, p, clockNow, oldest)

\* assignLoop without the branch for the oldest Revision: it is given what its
\* own elapsed time entitles it to, like every other Revision
RECURSIVE assignLoop_NoOldestRule(_, _, _, _, _, _, _, _)
assignLoop_NoOldestRule(roster, i, traffic, alreadyAssigned, r, p, clockNow, oldest) ==
    IF i < 1 THEN [err |-> FALSE, traffic |-> traffic]
    ELSE IF roster[i] \notin DOMAIN r THEN [err |-> TRUE, traffic |-> traffic]
    ELSE LET timeElapsed == clockNow - r[roster[i]].created
             want == computeNewPercentExplicit(p, timeElapsed)
             actual == min(want, 100 - alreadyAssigned)
             assigned == alreadyAssigned + actual
             filled == [traffic EXCEPT ![i] = RevisionTarget(roster[i], actual)]
         IN  IF assigned >= 100
             THEN [err |-> FALSE, traffic |-> SubSeq(filled, i, Len(filled))]
             ELSE assignLoop_NoOldestRule(roster, i - 1, filled, assigned, r, p, clockNow, oldest)

\* The loop "for i := len(roster) - 1; i >= 0; i--" of modifyRouteSpec at
\* position i (1-based) with the traffic container and alreadyAssigned so far.
\* Yields [err, traffic].
RECURSIVE assignLoop(_, _, _, _, _, _, _, _)
assignLoop(roster, i, traffic, alreadyAssigned, r, p, clockNow, oldest) ==
    IF i < 1 THEN [err |-> FALSE, traffic |-> traffic]
    ELSE IF roster[i] \notin DOMAIN r THEN [err |-> TRUE, traffic |-> traffic]
    ELSE IF roster[i] = oldest
         THEN [err |-> FALSE,
               traffic |-> [traffic EXCEPT ![i] = RevisionTarget(roster[i], 100 - alreadyAssigned)]]
    ELSE LET timeElapsed == clockNow - r[roster[i]].created
             want == computeNewPercentExplicit(p, timeElapsed)
             actual == min(want, 100 - alreadyAssigned)
             assigned == alreadyAssigned + actual
             filled == [traffic EXCEPT ![i] = RevisionTarget(roster[i], actual)]
         IN  IF assigned >= 100
             THEN [err |-> FALSE, traffic |-> SubSeq(filled, i, Len(filled))]
             ELSE assignLoop(roster, i - 1, filled, assigned, r, p, clockNow, oldest)

\* collapseSingle with the rewrite of a one-entry plan left out
collapseSingle_Kept(traffic, routeName) == traffic

\* the closing rewrite of a one-entry plan
collapseSingle(traffic, routeName) ==
    IF Len(traffic) = 1 THEN <<LatestTarget(routeName)>> ELSE traffic

\* make([]v1.TrafficTarget, ln): ln targets of the zero value
RECURSIVE makeTraffic(_)
makeTraffic(ln) == IF ln = 0 THEN << >> ELSE Append(makeTraffic(ln - 1), BlankTarget)

\* modifyRouteSpec(route, r, newRevName, policy, clock), with the result of its
\* call of oldestRevision(r) as `oldest`. Yields [err, route]; on an error the
\* route is returned as it was.
modifyRouteSpec(rt, r, newRevName, p, clockNow, oldest) ==
    LET roster == rosterOf(rt.status, newRevName)
        ln == Len(roster)
    IN  IF ln = 1
        THEN IF newRevName \notin DOMAIN r
             THEN [err |-> TRUE, route |-> rt]
             ELSE [err |-> FALSE,
                   route |-> [rt EXCEPT !.spec = <<LatestTarget(r[newRevName].owner)>>]]
        ELSE LET out == assignLoop(roster, ln, makeTraffic(ln), 0,
                                   r, p, clockNow, oldest)
             IN  IF out.err THEN [err |-> TRUE, route |-> rt]
                 ELSE [err |-> FALSE,
                       route |-> [rt EXCEPT !.spec = collapseSingle(out.traffic, rt.name)]]

\* tillEventLoop without the "continue" for the oldest Revision
RECURSIVE tillEventLoop_WithOldest(_, _, _, _, _, _, _)
tillEventLoop_WithOldest(traffic, i, res, r, p, clockNow, oldest) ==
    IF i > Len(traffic) THEN [err |-> FALSE, result |-> res]
    ELSE IF traffic[i].RevisionName \notin DOMAIN r THEN [err |-> TRUE, result |-> 0]
    ELSE tillEventLoop_WithOldest(traffic, i + 1,
             min(metricTillNextStage(p, clockNow - r[traffic[i].RevisionName].created), res),
             r, p, clockNow, oldest)

\* The loop of timeTillNextEvent over route.Spec.Traffic from entry i with the
\* running minimum; yields [err, result].
RECURSIVE tillEventLoop(_, _, _, _, _, _, _)
tillEventLoop(traffic, i, res, r, p, clockNow, oldest) ==
    IF i > Len(traffic) THEN [err |-> FALSE, result |-> res]
    ELSE IF traffic[i].RevisionName \notin DOMAIN r THEN [err |-> TRUE, result |-> 0]
    ELSE IF traffic[i].RevisionName = oldest
         THEN tillEventLoop(traffic, i + 1, res, r, p, clockNow, oldest)
    ELSE tillEventLoop(traffic, i + 1,
             min(metricTillNextStage(p, clockNow - r[traffic[i].RevisionName].created), res),
             r, p, clockNow, oldest)

\* timeTillNextEvent(route, r, policy, clock) in whole seconds, with the result
\* of its call of oldestRevision(r) as `oldest`
timeTillNextEvent(rt, r, p, clockNow, oldest) ==
    tillEventLoop(rt.spec, 1, MaxInt32, r, p, clockNow, oldest)

-----------------------------------------------------------------------------
(* The objects the functions are run on *)

NameSeq == <<"R1", "R2", "R3", "R4", "R5", "R6">>
RevNames == {NameSeq[i] : i \in 1..MaxRevs}
NameIndex(n) == CHOOSE i \in 1..Len(NameSeq) : NameSeq[i] = n

CfgNamespace == "default"
CfgName == "cfg"

\* a Revision of the Configuration: the platform labels it with, and makes it
\* owned by, its Configuration
Revision(created) == [created |-> created, owner |-> CfgName]

\* Revision maps over the names: a Revision with a larger index was not created
\* before one with a smaller index (creation times may coincide)
RevisionMapsUpTo(latest) ==
    {r \in UNION {[S -> {Revision(t) : t \in 0..latest}] : S \in SUBSET RevNames} :
        \A m, n \in DOMAIN r : NameIndex(m) < NameIndex(n) => r[m].created <= r[n].created}

\* the subsequence of NameSeq made of the names in S
RECURSIVE NamesInOrder(_, _)
NamesInOrder(S, i) ==
    IF i > Len(NameSeq) THEN << >>
    ELSE IF NameSeq[i] \in S THEN <<NameSeq[i]>> \o NamesInOrder(S, i + 1)
    ELSE NamesInOrder(S, i + 1)

\* a status traffic list naming the given Revisions, percents summing to 100
StatusTraffic(names) ==
    [i \in 1..Len(names) |->
        [RevisionTarget(names[i], IF i = 1 THEN 101 - Len(names) ELSE 1)
            EXCEPT !.LatestRevision = Ptr(Len(names) = 1)]]

\* the status traffic lists of a Route: ordered from oldest to newest
StatusTraffics == {StatusTraffic(NamesInOrder(S, 1)) : S \in SUBSET RevNames}

PercentValues == {0, 40, 60}
StageSeqs(values, thresholds) ==
    UNION {[1..n -> {Stage(v, t) : v \in values, t \in thresholds}] : n \in 0..MaxStages}

\* the policies the planner is run on: admitted or not
PlannerPolicies ==
    {PolicySpec("time", 1, st) : st \in StageSeqs(PercentValues, {Nil})}

IdleCall == [op |-> "none", done |-> TRUE]
\* what a reconciliation did: the step it ended at, the plan the planner
\* emitted, the newest ready Revision it planned for, the delay it computed
Outcome(step, plan, newest, delay) ==
    [step |-> step, plan |-> plan, newest |-> newest, delay |-> delay,
     err |-> "none", followups |-> {}]
\* the same with the error ReconcileKind returned and the delays (in ticks) it
\* called c.followup with
Report(outcome, err, sent) == [outcome EXCEPT !.err = err, !.followups = sent]
NoResult == Outcome("none", << >>, NoRevision, 0)
NoHistory == [roster |-> << >>, pruned |-> {}]

-----------------------------------------------------------------------------
(* The planner on its own: any status plan, revision map, newest-ready name
   and policy *)

InitPlan ==
    /\ now = MaxNow
    /\ revisionMap \in RevisionMapsUpTo(MaxNow)
    /\ cfg \in {[Namespace |-> CfgNamespace, Name |-> CfgName, annotated |-> TRUE,
                 LatestCreatedRevisionName |-> n, LatestReadyRevisionName |-> n] :
                    n \in RevNames}
    /\ policy \in PlannerPolicies
    /\ route \in {[name |-> CfgName, spec |-> << >>, status |-> st] : st \in StatusTraffics}
    \* the latest created Revision is the newest one the platform knows of
    /\ \A n \in DOMAIN revisionMap \cup {route.status[i].RevisionName : i \in 1..Len(route.status)} :
           NameIndex(n) <= NameIndex(cfg.LatestReadyRevisionName)
    /\ policystate = NoObject
    /\ workqueue = {}
    /\ result = NoResult
    /\ history = NoHistory
    /\ call = [op |-> "modifyRouteSpec", done |-> FALSE]

\* one call modifyRouteSpec(route, revisionMap, latestReady, policy, clock)
CallModifyRouteSpec ==
    /\ call.op = "modifyRouteSpec" /\ ~call.done
    /\ \E oldest \in oldestRevision(revisionMap) :
         LET out == modifyRouteSpec(route, revisionMap, cfg.LatestReadyRevisionName,
                                    translatePolicy(policy), now, oldest)
         IN  call' = [op |-> "modifyRouteSpec", done |-> TRUE, oldest |-> oldest,
                      err |-> out.err, traffic |-> out.route.spec]
    /\ UNCHANGED <<now, revisionMap, cfg, policy, route, policystate, workqueue, result, history>>

\* modifyRouteSpec called once more on the same route, Revisions, policy and
\* clock, as a second reconciliation of the stored objects calls it
CallModifyRouteSpecAgain ==
    /\ call.op = "modifyRouteSpec" /\ call.done
    /\ \E oldest \in oldestRevision(revisionMap) :
         LET out == modifyRouteSpec(route, revisionMap, cfg.LatestReadyRevisionName,
                                    translatePolicy(policy), now, oldest)
         IN  call' = [op |-> "modifyRouteSpecAgain", done |-> TRUE, oldest |-> oldest,
                      err |-> out.err, traffic |-> out.route.spec,
                      before |-> [oldest |-> call.oldest, err |-> call.err,
                                  traffic |-> call.traffic]]
    /\ UNCHANGED <<now, revisionMap, cfg, policy, route, policystate, workqueue, result, history>>

\* one call timeTillNextEvent(route, revisionMap, policy, clock) on a route
\* whose spec traffic is empty, the plan modifyRouteSpec emitted, or a list of
\* (Revision, percent) pairs as TestTimeTillNextEvent builds them
CallTimeTillNextEvent ==
    /\ call.op = "modifyRouteSpec" /\ call.done /\ ~call.err
    /\ \E plan \in {<< >>, call.traffic, route.status} :
       \E oldest \in oldestRevision(revisionMap) :
         LET out == timeTillNextEvent([route EXCEPT !.spec = plan], revisionMap,
                                      translatePolicy(policy), now, oldest)
         IN  call' = [op |-> "timeTillNextEvent", done |-> TRUE, oldest |-> oldest,
                      err |-> out.err, plan |-> plan, out |-> out.result]
    /\ UNCHANGED <<now, revisionMap, cfg, policy, route, policystate, workqueue, result, history>>

NextPlan == CallModifyRouteSpec \/ CallModifyRouteSpecAgain \/ CallTimeTillNextEvent

SpecPlan == InitPlan /\ [][NextPlan]_vars

\* the plan a finished call emitted without error
Emitted == call.op = "modifyRouteSpec" /\ call.done /\ ~call.err

-----------------------------------------------------------------------------
(* Properties of the emitted plan *)

PercentOf(t) == IF t.Percent = Nil THEN 0 ELSE t.Percent[1]

RECURSIVE SumPercents(_)
SumPercents(traffic) ==
    IF traffic = << >> THEN 0 ELSE PercentOf(Head(traffic)) + SumPercents(Tail(traffic))

Accepted(p) == Validate(p) = << >>

\* what computeNewPercentExplicit entitles Revision n to at the current time
Entitled(n) == computeNewPercentExplicit(translatePolicy(policy), now - revisionMap[n].created)

Roster == rosterOf(route.status, cfg.LatestReadyRevisionName)

RECURSIVE EntitledFrom(_, _)
EntitledFrom(roster, i) ==
    IF i > Len(roster) THEN 0 ELSE Entitled(roster[i]) + EntitledFrom(roster, i + 1)

\* C1: the percents of a plan the planner emits without error under a policy
\* the validator accepts sum to exactly 100.
C1_SumIs100 ==
    (Emitted /\ Accepted(policy)) => SumPercents(call.traffic) = 100

\* C3: no entry of a plan emitted under a policy the validator accepts has
\* percent 0: every percent an entry carries is at least 1.
C3_NoZeroPercent ==
    (Emitted /\ Accepted(policy)) =>
        \A i \in 1..Len(call.traffic) :
            call.traffic[i].Percent # Nil => call.traffic[i].Percent[1] >= 1

\* C3 under the documented validator (every stage percent in [1,99]): the zero
\* entries come from the stage percents 0 that Validate lets through.
C3_WithDocumentedBounds ==
    (Emitted /\ Accepted(policy)
        /\ \A k \in 1..Len(policy.Stages) : policy.Stages[k].Percent >= 1) =>
        \A i \in 1..Len(call.traffic) :
            call.traffic[i].Percent # Nil => call.traffic[i].Percent[1] >= 1

\* C4: an emitted plan with exactly one entry is the entry (configuration name,
\* latestRevision = true, 100%), for a one-name roster and for a longer roster
\* that collapses to one entry alike.
C4_SingleEntryIsLatest ==
    (Emitted /\ Len(call.traffic) = 1) =>
        /\ call.traffic[1].LatestRevision = Ptr(TRUE)
        /\ call.traffic[1].ConfigurationName = cfg.Name
        /\ call.traffic[1].RevisionName = ""
        /\ call.traffic[1].Percent = Ptr(100)

C4_Witness == Emitted /\ Len(Roster) >= 2 /\ Len(call.traffic) = 1

C4_WitnessOneName == Emitted /\ Len(Roster) = 1 /\ Len(call.traffic) = 1

\* C7: in an emitted plan with two or more entries every entry but the first
\* names a Revision and carries exactly the percent computeNewPercentExplicit
\* entitles that Revision to.
C7_NewestFirst ==
    (Emitted /\ Len(call.traffic) >= 2) =>
        \A i \in 2..Len(call.traffic) :
            /\ call.traffic[i].RevisionName \in DOMAIN revisionMap
            /\ call.traffic[i].Percent = Ptr(Entitled(call.traffic[i].RevisionName))

\* C7 on the plans that hold no blank target: it fails on the others alone.
C7_WithoutBlankTargets ==
    (Emitted /\ Len(call.traffic) >= 2
        /\ \A i \in 1..Len(call.traffic) : call.traffic[i] # BlankTarget) =>
        \A i \in 2..Len(call.traffic) :
            /\ call.traffic[i].RevisionName \in DOMAIN revisionMap
            /\ call.traffic[i].Percent = Ptr(Entitled(call.traffic[i].RevisionName))

\* the walk from the newest end reaches 100 at roster position i: the Revisions
\* from i on are in the map, none of them is the oldest, and their entitlements
\* add up to 100 or more from i but not from i + 1
ReachesHundredAt(i) ==
    /\ \A j \in i..Len(Roster) : Roster[j] \in DOMAIN revisionMap /\ Roster[j] # call.oldest
    /\ EntitledFrom(Roster, i) >= 100
    /\ EntitledFrom(Roster, i + 1) < 100

C14_SamePlanTwice ==
    (call.op = "modifyRouteSpecAgain" /\ ~call.before.err /\ ~call.err) =>
        call.traffic = call.before.traffic

\* C14 when one Revision alone has the earliest creation time
C14_WithOneOldest ==
    (call.op = "modifyRouteSpecAgain" /\ ~call.before.err /\ ~call.err
        /\ Cardinality(oldestRevision(revisionMap)) = 1) =>
        call.traffic = call.before.traffic

\* C17: under a policy without stages every plan the planner emits without
\* error is the single entry (configuration name, latestRevision = true, 100%).
C17_EmptyStagesSingleton ==
    (Emitted /\ Len(policy.Stages) = 0) => call.traffic = <<LatestTarget(cfg.Name)>>

\* C17 when the newest ready Revision is not the one oldestRevision returns
C17_WithOlderRevision ==
    (Emitted /\ Len(policy.Stages) = 0 /\ call.oldest # cfg.LatestReadyRevisionName) =>
        call.traffic = <<LatestTarget(cfg.Name)>>

\* the names of a plan, and the smallest of the waits of a set of Revisions
\* (MaxInt32 seconds when the set is empty or none has a next stage)
NamesOf(traffic) == {traffic[i].RevisionName : i \in 1..Len(traffic)}

Wait(n) == metricTillNextStage(translatePolicy(policy), now - revisionMap[n].created)

SmallestWait(S) ==
    LET waits == {Wait(n) : n \in S} \cup {MaxInt32}
    IN  CHOOSE v \in waits : \A w \in waits : v <= w

\* C26: timeTillNextEvent returns the minimum of metricTillNextStage(policy,
\* now - creation time) over the Revisions the plan names, the Revision with
\* the earliest creation time of the whole revision map left out whatever its
\* age; it returns MaxInt32 seconds for an empty plan and when no Revision that
\* is counted has a next stage.
C26_MinOverNewer ==
    (call.op = "timeTillNextEvent" /\ ~call.err) =>
        /\ call.oldest \in oldestRevision(revisionMap)
        /\ call.out = SmallestWait(NamesOf(call.plan) \ {call.oldest})
        /\ call.plan = << >> => call.out = MaxInt32
        /\ (\A n \in NamesOf(call.plan) \ {call.oldest} : Wait(n) = MaxInt32) =>
               call.out = MaxInt32

\* the oldest Revision is in the plan and waits less than any Revision counted
C26_Witness ==
    /\ call.op = "timeTillNextEvent" /\ ~call.err
    /\ call.oldest \in NamesOf(call.plan)
    /\ Wait(call.oldest) < call.out
    /\ call.out < MaxInt32

\* an empty plan
C26_WitnessEmpty ==
    call.op = "timeTillNextEvent" /\ ~call.err /\ call.plan = << >> /\ call.out = MaxInt32

\* the walk of the roster from the newest end gets as far as position k: the
\* Revisions after k are in the map, none is the oldest, and their entitlements
\* add up to less than 100
WalkReaches(k) ==
    /\ \A j \in (k + 1)..Len(Roster) : Roster[j] \in DOMAIN revisionMap /\ Roster[j] # call.oldest
    /\ EntitledFrom(Roster, k + 1) < 100

\* C27: when the walk of a roster of two or more names comes to the Revision
\* with the earliest creation time of the whole revision map, that Revision is
\* given exactly 100 minus the sum given to the newer Revisions of the roster,
\* whatever its own elapsed time and the policy entitle it to, and the walk
\* stops: no older name of the roster is given anything.
C27_OldestAbsorbsRest ==
    (Emitted /\ Len(Roster) >= 2) =>
        \A k \in 1..Len(Roster) :
            (Roster[k] = call.oldest /\ WalkReaches(k)) =>
                /\ call.oldest \in oldestRevision(revisionMap)
                /\ Len(call.traffic) = Len(Roster)
                /\ call.traffic[k] =
                       RevisionTarget(call.oldest, 100 - EntitledFrom(Roster, k + 1))
                /\ \A j \in (k + 1)..Len(Roster) :
                       call.traffic[j] = RevisionTarget(Roster[j], Entitled(Roster[j]))
                /\ \A j \in 1..(k - 1) : call.traffic[j].Percent = Nil

\* the oldest Revision is given something else than its elapsed time entitles
\* it to, with a newer Revision after it
C27_Witness ==
    /\ Emitted /\ Len(Roster) >= 2
    /\ \E k \in 1..(Len(Roster) - 1) :
          /\ Roster[k] = call.oldest /\ WalkReaches(k)
          /\ Entitled(call.oldest) # 100 - EntitledFrom(Roster, k + 1)
          /\ call.traffic[k].Percent = Ptr(100 - EntitledFrom(Roster, k + 1))

-----------------------------------------------------------------------------
(* Policy.Validate on its own: any policy of the bounded shape *)

Modes == {"time", "request"}
ValidatePercents == {-1, 0, 1, 99, 100}
ValidateThresholds == {Nil, Ptr(0), Ptr(1)}

\* the objects every specification but the scheduler's leaves alone
IdleObjects ==
    /\ now = 0
    /\ revisionMap = << >>
    /\ cfg = [Namespace |-> CfgNamespace, Name |-> CfgName, annotated |-> TRUE,
              LatestCreatedRevisionName |-> "", LatestReadyRevisionName |-> ""]
    /\ route = [name |-> CfgName, spec |-> << >>, status |-> << >>]
    /\ policystate = NoObject
    /\ workqueue = {}
    /\ result = NoResult
    /\ history = NoHistory

InitValidate ==
    /\ IdleObjects
    /\ policy \in {PolicySpec(m, d, st) :
                      m \in Modes, d \in {0, 1},
                      st \in StageSeqs(ValidatePercents, ValidateThresholds)}
    /\ call = [op |-> "Validate", done |-> FALSE]

CallValidate ==
    /\ call.op = "Validate" /\ ~call.done
    /\ call' = [op |-> "Validate", done |-> TRUE, errs |-> Validate(policy)]
    /\ UNCHANGED <<now, revisionMap, cfg, policy, route, policystate, workqueue, result, history>>

NextValidate == CallValidate

SpecValidate == InitValidate /\ [][NextValidate]_vars

\* the criteria the README gives for a policy ("Customizing Policies")
MeetsCriteria(p) ==
    /\ p.Mode = "time"
    /\ p.DefaultThreshold > 0
    /\ Len(p.Stages) >= 1
    /\ \A k \in 1..Len(p.Stages) : p.Stages[k].Percent >= 1 /\ p.Stages[k].Percent <= 99
    /\ \A k \in 2..Len(p.Stages) : p.Stages[k - 1].Percent <= p.Stages[k].Percent
    /\ \A k \in 1..Len(p.Stages) :
           p.Stages[k].Threshold # Nil => p.Stages[k].Threshold[1] > 0

\* C9: Validate returns no error exactly for the policies with mode "time",
\* defaultThreshold > 0, at least one stage, every percent in [1,99], percents
\* in non-decreasing order and every given threshold > 0.
C9_ValidateExactly ==
    (call.op = "Validate" /\ call.done) => ((call.errs = << >>) <=> MeetsCriteria(policy))

\* C9 with the percent window [0,99] of the code in place of [1,99]
C9_WithZeroAllowed ==
    (call.op = "Validate" /\ call.done) =>
        ((call.errs = << >>) <=>
            /\ policy.Mode = "time"
            /\ policy.DefaultThreshold > 0
            /\ Len(policy.Stages) >= 1
            /\ \A k \in 1..Len(policy.Stages) :
                   policy.Stages[k].Percent >= 0 /\ policy.Stages[k].Percent <= 99
            /\ \A k \in 2..Len(policy.Stages) :
                   policy.Stages[k - 1].Percent <= policy.Stages[k].Percent
            /\ \A k \in 1..Len(policy.Stages) :
                   policy.Stages[k].Threshold # Nil => policy.Stages[k].Threshold[1] > 0)

-----------------------------------------------------------------------------
(* The policy evaluator on its own: any policy with positive thresholds, any
   elapsed time *)

EvalPercents == {10, 50, 90}
MaxElapsed == MaxStages * MaxThreshold * TicksPerSecond + 1

InitEval ==
    /\ IdleObjects
    /\ policy \in {PolicySpec("time", d, st) :
                      d \in 1..MaxThreshold,
                      st \in StageSeqs(EvalPercents, {Nil} \cup {Ptr(t) : t \in 1..MaxThreshold})}
    /\ call \in {[op |-> "evaluator", done |-> FALSE, elapsed |-> e] : e \in 0..MaxElapsed}

CallComputeNewPercentExplicit ==
    /\ call.op = "evaluator" /\ ~call.done
    /\ call' = [op |-> "computeNewPercentExplicit", done |-> TRUE, elapsed |-> call.elapsed,
                out |-> computeNewPercentExplicit(translatePolicy(policy), call.elapsed)]
    /\ UNCHANGED <<now, revisionMap, cfg, policy, route, policystate, workqueue, result, history>>

CallMetricTillNextStage ==
    /\ call.op = "evaluator" /\ ~call.done
    /\ call' = [op |-> "metricTillNextStage", done |-> TRUE, elapsed |-> call.elapsed,
                out |-> metricTillNextStage(translatePolicy(policy), call.elapsed)]
    /\ UNCHANGED <<now, revisionMap, cfg, policy, route, policystate, workqueue, result, history>>

\* computeNewPercentExplicit called once more for the same policy, no less
\* time having elapsed
CallComputeNewPercentExplicitLater ==
    /\ call.op = "computeNewPercentExplicit" /\ call.done
    /\ \E later \in call.elapsed..MaxElapsed :
         call' = [op |-> "computeNewPercentExplicitLater", done |-> TRUE,
                  elapsed |-> later,
                  out |-> computeNewPercentExplicit(translatePolicy(policy), later),
                  before |-> [elapsed |-> call.elapsed, out |-> call.out]]
    /\ UNCHANGED <<now, revisionMap, cfg, policy, route, policystate, workqueue, result, history>>

\* the follow-up that metricTillNextStage asked for is delivered, on time or
\* late by up to a second, and both functions are called again
CallAtDelivery ==
    /\ call.op = "metricTillNextStage" /\ call.done
    /\ call.out < MaxInt32
    /\ \E late \in 0..TicksPerSecond :
         LET at == call.elapsed + call.out * TicksPerSecond + late
         IN  call' = [op |-> "atDelivery", done |-> TRUE, elapsed |-> at,
                      out |-> metricTillNextStage(translatePolicy(policy), at),
                      percent |-> computeNewPercentExplicit(translatePolicy(policy), at),
                      before |-> [elapsed |-> call.elapsed, out |-> call.out]]
    /\ UNCHANGED <<now, revisionMap, cfg, policy, route, policystate, workqueue, result, history>>

NextEval ==
    \/ CallComputeNewPercentExplicit
    \/ CallMetricTillNextStage
    \/ CallComputeNewPercentExplicitLater
    \/ CallAtDelivery

SpecEval == InitEval /\ [][NextEval]_vars

\* threshold(s): s.threshold if given, else defaultThreshold, in ticks
ThresholdTicks(p, k) ==
    (IF p.Stages[k].Threshold # Nil THEN p.Stages[k].Threshold[1] ELSE p.DefaultThreshold)
        * TicksPerSecond

\* C10: stages[0].percent is the starting percent. For a policy with at least
\* one stage a Revision whose elapsed time is less than threshold(stages[0]) is
\* entitled to stages[0].percent, and once threshold(stages[0]) has elapsed it
\* is entitled to the percent of a later stage (100 after the last).
C10_FirstStageIsStart ==
    (call.op = "computeNewPercentExplicit" /\ call.done /\ Len(policy.Stages) >= 1) =>
        /\ call.elapsed < ThresholdTicks(policy, 1) => call.out = policy.Stages[1].Percent
        /\ call.elapsed >= ThresholdTicks(policy, 1) =>
               call.out \in {policy.Stages[k].Percent : k \in 2..Len(policy.Stages)} \cup {100}

\* C11: for a policy Validate accepts the percent computeNewPercentExplicit
\* returns does not go down as the elapsed time goes up: of two calls for the
\* same policy the one with the later elapsed time returns no less.
C11_Monotone ==
    (call.op = "computeNewPercentExplicitLater" /\ Accepted(policy)) =>
        call.before.out <= call.out

C11_Witness ==
    /\ call.op = "computeNewPercentExplicitLater" /\ Accepted(policy)
    /\ call.before.elapsed < call.elapsed
    /\ call.before.out < call.out /\ call.out < 100

\* cum_k in ticks: the thresholds of the stages the loop has passed when it is
\* at Stages[k] (k counted from 1; the loop starts at the second stage)
RECURSIVE CumTicks(_, _)
CumTicks(p, k) == IF k < 2 THEN 0 ELSE CumTicks(p, k - 1) + ThresholdTicks(p, k)

\* the stages with a cumulative threshold beyond the elapsed time
NextStages(p, elapsed) == {k \in 2..Len(p.Stages) : CumTicks(p, k) > elapsed}

FirstOf(S) == CHOOSE k \in S : \A j \in S : k <= j

\* C12: when some cumulative threshold lies beyond the elapsed time,
\* metricTillNextStage returns a whole number of seconds that is at least 1 and
\* strictly more than the time left to the first such threshold; it returns
\* MaxInt32 when there are no stages or no such threshold.
C12_StrictlyBigger ==
    (call.op = "metricTillNextStage" /\ call.done) =>
        LET S == NextStages(policy, call.elapsed)
        IN  IF S = {} THEN call.out = MaxInt32
            ELSE /\ call.out >= 1
                 /\ call.out * TicksPerSecond > CumTicks(policy, FirstOf(S)) - call.elapsed

\* the time left is a whole number of seconds, and is not
C12_Witness ==
    /\ call.op = "metricTillNextStage" /\ call.done
    /\ NextStages(policy, call.elapsed) # {}
    /\ (CumTicks(policy, FirstOf(NextStages(policy, call.elapsed))) - call.elapsed)
           % TicksPerSecond = 0
    /\ call.out >= 2

C12_WitnessNoStage ==
    /\ call.op = "metricTillNextStage" /\ call.done
    /\ Len(policy.Stages) >= 2 /\ NextStages(policy, call.elapsed) = {}

\* C13: an elapsed time equal to a cumulative threshold cum_k has crossed it
\* (the thresholds being positive, as Validate requires):
\* computeNewPercentExplicit returns the percent of the stage after k, 100
\* when k is the last stage, and metricTillNextStage the whole seconds next
\* above the time from cum_k to cum_(k+1), MaxInt32 when k is the last stage.
C13_BoundaryCrossed ==
    (call.op \in {"computeNewPercentExplicit", "metricTillNextStage"} /\ call.done) =>
        \A k \in 2..Len(policy.Stages) :
            call.elapsed = CumTicks(policy, k) =>
                IF call.op = "computeNewPercentExplicit"
                THEN call.out = IF k = Len(policy.Stages) THEN 100
                                ELSE policy.Stages[k + 1].Percent
                ELSE call.out = IF k = Len(policy.Stages) THEN MaxInt32
                                ELSE ThresholdTicks(policy, k + 1) \div TicksPerSecond + 1

C13_Witness ==
    /\ call.op = "computeNewPercentExplicit" /\ call.done
    /\ Len(policy.Stages) >= 3
    /\ call.elapsed = CumTicks(policy, 2)
    /\ call.out = policy.Stages[3].Percent
    /\ policy.Stages[3].Percent # policy.Stages[2].Percent

C13_WitnessMetric ==
    /\ call.op = "metricTillNextStage" /\ call.done
    /\ Len(policy.Stages) >= 3
    /\ call.elapsed = CumTicks(policy, 2)
    /\ call.out = ThresholdTicks(policy, 3) \div TicksPerSecond + 1


\* C24: computeNewPercentExplicit is the reference schedule: the percent of
\* the first stage, counted from the second, whose cumulative threshold lies
\* beyond the elapsed time, 100 when there is none or no stage at all; under a
\* policy Validate accepts the result is in 0..100.
C24_ReferenceSchedule ==
    (call.op = "computeNewPercentExplicit" /\ call.done) =>
        LET S == NextStages(policy, call.elapsed)
        IN  /\ call.out = IF S = {} THEN 100 ELSE policy.Stages[FirstOf(S)].Percent
            /\ Accepted(policy) => call.out \in 0..100

C24_Witness ==
    /\ call.op = "computeNewPercentExplicit" /\ call.done
    /\ NextStages(policy, call.elapsed) # {}
    /\ FirstOf(NextStages(policy, call.elapsed)) >= 3
    /\ call.out = policy.Stages[3].Percent
    /\ policy.Stages[2].Percent # policy.Stages[3].Percent
    /\ policy.Stages[2].Threshold # policy.Stages[3].Threshold

\* C25: a follow-up delivered no sooner than the delay metricTillNextStage gave
\* finds the cumulative threshold it was waiting for reached: the Revision is
\* in a later stage, and a follow-up asked for then waits for a later threshold.
C25_NeverTooEarly ==
    (call.op = "atDelivery") =>
        LET waited == FirstOf(NextStages(policy, call.before.elapsed))
        IN  /\ call.elapsed >= CumTicks(policy, waited)
            /\ waited \notin NextStages(policy, call.elapsed)
            /\ call.percent = IF NextStages(policy, call.elapsed) = {} THEN 100
                              ELSE policy.Stages[FirstOf(NextStages(policy, call.elapsed))].Percent
            /\ call.out < MaxInt32 =>
                   call.elapsed + call.out * TicksPerSecond > CumTicks(policy, waited + 1)

\* delivered on time after a wait of a whole number of seconds
C25_Witness ==
    /\ call.op = "atDelivery"
    /\ call.elapsed = CumTicks(policy, FirstOf(NextStages(policy, call.before.elapsed)))
                        + TicksPerSecond
    /\ call.out < MaxInt32

-----------------------------------------------------------------------------
(* identifyPolicy on its own: any annotation value of up to MaxAnnotation
   characters.  A string is the sequence of its characters. *)

Characters == {"/", "a", "b"}

Strings(n) == UNION {[1..k -> Characters] : k \in 0..n}

\* strings.Index(s, "/") counted from 1: 0 when there is no slash
RECURSIVE IndexSlash(_, _)
IndexSlash(str, i) ==
    IF i > Len(str) THEN 0
    ELSE IF str[i] = "/" THEN i
    ELSE IndexSlash(str, i + 1)

\* strings.LastIndex(s, "/") counted from 1
RECURSIVE LastIndexSlash(_, _)
LastIndexSlash(str, i) ==
    IF i < 1 THEN 0
    ELSE IF str[i] = "/" THEN i
    ELSE LastIndexSlash(str, i - 1)

\* strings.SplitN(s, "/", 2): s cut at its first slash, or s alone
SplitN2(str) ==
    LET i == IndexSlash(str, 1)
    IN  IF i = 0 THEN <<str>>
        ELSE <<SubSeq(str, 1, i - 1), SubSeq(str, i + 1, Len(str))>>

\* identifyPolicy cutting the value at its last slash
identifyPolicy_LastSlash(c) ==
    LET i == LastIndexSlash(c.PolicyNameKey, Len(c.PolicyNameKey))
    IN  IF i = 0 THEN [policyNamespace |-> c.Namespace, policyName |-> c.PolicyNameKey]
        ELSE [policyNamespace |-> SubSeq(c.PolicyNameKey, 1, i - 1),
              policyName |-> SubSeq(c.PolicyNameKey, i + 1, Len(c.PolicyNameKey))]

\* identifyPolicy(cfg): the namespace and the name of the Policy the annotation
\* delivery.knative.dev/policy of the Configuration names
identifyPolicy(c) ==
    LET parts == SplitN2(c.PolicyNameKey)
    IN  IF Len(parts) > 1
        THEN [policyNamespace |-> parts[1], policyName |-> parts[2]]
        ELSE [policyNamespace |-> c.Namespace, policyName |-> c.PolicyNameKey]

InitIdentify ==
    /\ now = 0
    /\ revisionMap = << >>
    /\ cfg \in {[Namespace |-> ns, Name |-> <<"a">>, annotated |-> TRUE,
                  PolicyNameKey |-> v,
                  LatestCreatedRevisionName |-> "", LatestReadyRevisionName |-> ""] :
                     ns \in {<<"a">>, <<"b", "b">>}, v \in Strings(MaxAnnotation)}
    /\ policy = PolicySpec("time", 1, << >>)
    /\ route = [name |-> CfgName, spec |-> << >>, status |-> << >>]
    /\ policystate = NoObject
    /\ workqueue = {}
    /\ result = NoResult
    /\ history = NoHistory
    /\ call = [op |-> "identifyPolicy", done |-> FALSE]

CallIdentifyPolicy ==
    /\ call.op = "identifyPolicy" /\ ~call.done
    /\ call' = [op |-> "identifyPolicy", done |-> TRUE, out |-> identifyPolicy(cfg)]
    /\ UNCHANGED <<now, revisionMap, cfg, policy, route, policystate, workqueue, result, history>>

NextIdentify == CallIdentifyPolicy

SpecIdentify == InitIdentify /\ [][NextIdentify]_vars

HasSlash(str) == \E i \in 1..Len(str) : str[i] = "/"

\* C23: identifyPolicy splits the annotation value on its first slash. With a
\* slash in the value, the namespace is the text before the first slash, which
\* may be empty and holds no slash, and the name is all the text after it,
\* further slashes included; without one, the namespace is that of the
\* Configuration and the name is the whole value.
C23_SplitOnFirstSlash ==
    (call.op = "identifyPolicy" /\ call.done) =>
        IF HasSlash(cfg.PolicyNameKey)
        THEN /\ call.out.policyNamespace \o <<"/">> \o call.out.policyName = cfg.PolicyNameKey
             /\ ~HasSlash(call.out.policyNamespace)
        ELSE /\ call.out.policyNamespace = cfg.Namespace
             /\ call.out.policyName = cfg.PolicyNameKey

\* an empty namespace and a name with slashes of its own
C23_Witness ==
    /\ call.op = "identifyPolicy" /\ call.done
    /\ call.out.policyNamespace = << >>
    /\ Len(call.out.policyName) = 3
    /\ HasSlash(call.out.policyName)

-----------------------------------------------------------------------------
(* The reconciler and the platform around it *)

\* the policies a Configuration is rolled out with: those of MaxStages stages
\* that Validate admits
SystemPercents == {40, 60}
SystemPolicies ==
    {p \in {PolicySpec("time", 1, st) : st \in StageSeqs(SystemPercents, {Nil})} :
        Validate(p) = << >> /\ Len(p.Stages) = MaxStages}

\* the last tick of the clock: late enough for the last Revision created to
\* pass every stage of any of the policies and for its last follow-up to be due
Horizon == MaxCreate + (MaxStages + 1) * TicksPerSecond

\* shouldSkipConfig that skips on a match of the namespace or of the name
shouldSkipConfig_Either(c) == c.Namespace = KCDNamespace \/ c.Name = KCDName

shouldSkipConfig(c) == c.Namespace = KCDNamespace /\ c.Name = KCDName

\* hasPolicyAnnotation that takes every Configuration for an annotated one
hasPolicyAnnotation_Always(c) == TRUE

\* _, ok := cfg.Annotations[delivery.PolicyNameKey]
hasPolicyAnnotation(c) == c.annotated

configReady(c) ==
    /\ c.LatestReadyRevisionName = c.LatestCreatedRevisionName
    /\ c.LatestReadyRevisionName # NoRevision

\* resources.MakePolicyState(cfg): the PolicyState named as the Configuration
MakePolicyState(c) ==
    [name |-> c.Name, spec |-> [traffic |-> << >>],
     status |-> [traffic |-> << >>, NextUpdateTimestamp |-> Nil]]

\* fetchPolicyState(cfg): the PolicyState, made on demand
fetchPolicyState(c) == IF policystate = NoObject THEN MakePolicyState(c) ELSE policystate

\* clock.Now().Add(delay) for a delay in whole seconds; MaxInt32 seconds from
\* now is later than any time of the model
addDelay(clockNow, delay) ==
    IF delay >= MaxInt32 THEN MaxInt32 ELSE clockNow + delay * TicksPerSecond

\* followup that enqueues nothing
followup_Dropped(queue, clockNow, delayTicks) == queue

\* followup(cfg, delay) is WorkQueue.AddAfter of the Configuration's key: the
\* queue holds the times at which the key is due
followup(queue, clockNow, delayTicks) == queue \cup {clockNow + delayTicks}

\* the Revision each entry of a plan stands for, the entry of the
\* Configuration standing for its latest ready Revision
PlanNames(traffic, latestReady) ==
    [i \in 1..Len(traffic) |->
        IF traffic[i].LatestRevision = Ptr(TRUE) THEN latestReady ELSE traffic[i].RevisionName]

Range(f) == {f[i] : i \in DOMAIN f}

\* the record of the plans published, after one more is
Publish(h, traffic, latestReady) ==
    LET names == PlanNames(traffic, latestReady)
    IN  [roster |-> names,
         pruned |-> h.pruned \cup (Range(h.roster) \ Range(names))]

\* the Configurations the controller is run on: one that opted in to a policy,
\* one that did not, the controller's own, and two that share only the
\* namespace or only the name with the controller's own
SystemConfigurations ==
    {[Namespace |-> CfgNamespace, Name |-> CfgName, annotated |-> TRUE],
     [Namespace |-> CfgNamespace, Name |-> CfgName, annotated |-> FALSE],
     [Namespace |-> KCDNamespace, Name |-> KCDName, annotated |-> TRUE],
     [Namespace |-> KCDNamespace, Name |-> CfgName, annotated |-> FALSE],
     [Namespace |-> CfgNamespace, Name |-> KCDName, annotated |-> FALSE]}

\* a Revision of Configuration c
RevisionOf(c, created) == [created |-> created, owner |-> c.Name]

Init ==
    /\ now = 0
    /\ \E c \in SystemConfigurations :
          /\ cfg = [Namespace |-> c.Namespace, Name |-> c.Name, annotated |-> c.annotated,
                    LatestCreatedRevisionName |-> NameSeq[1],
                    LatestReadyRevisionName |-> NoRevision]
          /\ revisionMap = [n \in {NameSeq[1]} |-> RevisionOf(c, 0)]
          /\ route = [name |-> c.Name, spec |-> << >>, status |-> << >>]
    /\ policy \in SystemPolicies
    /\ policystate = NoObject
    /\ workqueue = {0}
    /\ result = NoResult
    /\ history = NoHistory
    /\ call = IdleCall


\* The handler registered on the Revision informer puts the key of the
\* Configuration owning a Revision in the work queue on every event of it.
EnqueueControllerOf(queue) == queue \cup {now}

\* the platform creates the next Revision of the Configuration
CreateRevision ==
    /\ now <= MaxCreate
    /\ Cardinality(DOMAIN revisionMap) < MaxRevs
    /\ LET name == NameSeq[Cardinality(DOMAIN revisionMap) + 1]
       IN  /\ revisionMap' = [n \in DOMAIN revisionMap \cup {name} |->
                                IF n = name THEN RevisionOf(cfg, now) ELSE revisionMap[n]]
           /\ cfg' = [cfg EXCEPT !.LatestCreatedRevisionName = name]
    /\ workqueue' = EnqueueControllerOf(workqueue)
    /\ UNCHANGED <<now, policy, route, policystate, result, history, call>>

\* the latest created Revision becomes ready
RevisionBecomesReady ==
    /\ cfg.LatestReadyRevisionName # cfg.LatestCreatedRevisionName
    /\ cfg' = [cfg EXCEPT !.LatestReadyRevisionName = cfg.LatestCreatedRevisionName]
    /\ workqueue' = EnqueueControllerOf(workqueue)
    /\ UNCHANGED <<now, revisionMap, policy, route, policystate, result, history, call>>

\* the informer resyncs, as it does when the controller starts: an event of a
\* Revision that changes nothing, taken up here when no delivery is pending
Resync ==
    /\ workqueue = {}
    /\ workqueue' = EnqueueControllerOf(workqueue)
    /\ UNCHANGED <<now, revisionMap, cfg, policy, route, policystate, result, history, call>>

Tick ==
    /\ now < Horizon
    /\ now' = now + 1
    /\ UNCHANGED <<revisionMap, cfg, policy, route, policystate, workqueue, result, history, call>>

\* the status entry the platform's Route controller resolves a target to
ResolvedTarget(t) ==
    IF t.LatestRevision = Ptr(TRUE)
    THEN [t EXCEPT !.RevisionName = cfg.LatestReadyRevisionName, !.ConfigurationName = ""]
    ELSE t

ResolvedTraffic(traffic) == [i \in 1..Len(traffic) |-> ResolvedTarget(traffic[i])]

\* the platform's Route controller brings the Route's status to its spec
RouteStatusEcho ==
    /\ route.spec # << >>
    /\ cfg.LatestReadyRevisionName # NoRevision
    /\ route.status # ResolvedTraffic(route.spec)
    /\ route' = [route EXCEPT !.status = ResolvedTraffic(route.spec)]
    /\ UNCHANGED <<now, revisionMap, cfg, policy, policystate, workqueue, result, history, call>>


\* the calls of a reconciliation that the platform can fail: the lister's Get
\* and the client's Create of fetchPolicyState in ReconcileKind, the four
\* fetches of updateRoute, and the two Updates of applyChanges
Failures ==
    {"getPolicyState", "createPolicyState", "fetchRoute", "fetchPolicy",
     "fetchRevisions", "getPolicyStateAgain", "updatePolicyState", "updateRoute"}

\* written with the update of the Route left out
written_PolicyStateOnly(fail) ==
    IF fail = "updatePolicyState" THEN {} ELSE {"policystate"}

\* written with the Route updated before the PolicyState
written_RouteFirst(fail) ==
    IF fail = "updateRoute" THEN {}
    ELSE IF fail = "updatePolicyState" THEN {"route"}
    ELSE {"policystate", "route"}

\* the objects applyChanges gets stored: PolicyStates(...).Update(ps) comes
\* first and Routes(...).Update(route) is reached only when it returned no error
written(fail) ==
    IF fail = "updatePolicyState" THEN {}
    ELSE IF fail = "updateRoute" THEN {"policystate"}
    ELSE {"policystate", "route"}

\* nextUpdateTimestamp that keeps a time for a stable plan too
nextUpdateTimestamp_Kept(plan, due) == Ptr(due)

\* ps.Status.NextUpdateTimestamp as applyChanges sets it
nextUpdateTimestamp(plan, due) ==
    IF plan[1].LatestRevision = Ptr(TRUE) THEN Nil ELSE Ptr(due)

\* applyChanges(ctx, cfg, route, ps, revisionMap, p) on the plan of `planned`,
\* with `queue`, `sent` and `ps` as ReconcileKind and updateRoute left them.
\* Reading *route.Spec.Traffic[0].LatestRevision of a target whose
\* LatestRevision is nil panics: the process ends with nothing written, and its
\* work queue with it.
applyChanges(planned, ps, queue, sent, oldest, fail) ==
    LET plan == planned.spec
        newest == cfg.LatestReadyRevisionName
        stable == plan[1].LatestRevision = Ptr(TRUE)
        next == timeTillNextEvent(planned, revisionMap, translatePolicy(policy), now, oldest)
        due == addDelay(now, next.result)
        enqueue == ~stable /\ next.result # 0
        queued == IF enqueue THEN followup(queue, now, due - now) ELSE queue
        called == IF enqueue THEN sent \cup {due - now} ELSE sent
        updated == [ps EXCEPT !.spec.traffic = plan,
                              !.status.NextUpdateTimestamp = nextUpdateTimestamp(plan, due)]
        failed == fail \in {"updatePolicyState", "updateRoute"}
    IN  IF plan[1].LatestRevision = Nil
        THEN /\ policystate' = ps
             /\ workqueue' = {}
             /\ result' = Report(Outcome("panic", plan, newest, 0), "none", sent)
             /\ UNCHANGED <<route, history>>
        ELSE IF ~stable /\ next.err
        THEN /\ policystate' = ps
             /\ workqueue' = queue
             /\ result' = Report(Outcome("error", plan, newest, 0), "missingRevision", sent)
             /\ UNCHANGED <<route, history>>
        ELSE /\ policystate' = IF "policystate" \in written(fail) THEN updated ELSE ps
             /\ route' = IF "route" \in written(fail) THEN planned ELSE route
             /\ history' = IF "route" \in written(fail)
                           THEN Publish(history, plan, newest) ELSE history
             /\ workqueue' = queued
             /\ result' = Report(Outcome(IF failed THEN "error"
                                         ELSE IF stable THEN "stable" ELSE "rolling",
                                         plan, newest, IF stable THEN 0 ELSE next.result),
                                 IF failed THEN fail ELSE "none", called)

\* updateRoute(ctx, cfg): the objects are fetched, the planner is run and its
\* plan is applied
updateRoute(ps, queue, sent, fail) ==
    IF fail \in {"fetchRoute", "fetchPolicy", "fetchRevisions", "getPolicyStateAgain"}
    THEN /\ policystate' = ps
         /\ workqueue' = queue
         /\ result' = Report(Outcome("error", << >>, cfg.LatestReadyRevisionName, 0), fail, sent)
         /\ UNCHANGED <<route, history>>
    ELSE \E oldest \in oldestRevision(revisionMap), oldestAgain \in oldestRevision(revisionMap) :
        LET out == modifyRouteSpec(route, revisionMap, cfg.LatestReadyRevisionName,
                                   translatePolicy(policy), now, oldest)
        IN  IF out.err
            THEN /\ policystate' = ps
                 /\ workqueue' = queue
                 /\ result' = Report(Outcome("error", << >>, cfg.LatestReadyRevisionName, 0),
                                     "missingRevision", sent)
                 /\ UNCHANGED <<route, history>>
            ELSE applyChanges(out.route, ps, queue, sent, oldestAgain, fail)

\* ReconcileKind(ctx, cfg), run when the key of the Configuration is due in the
\* work queue, with the call `fail` failing ("none": no call fails)
Reconcile(fail) ==
    /\ \E t \in workqueue : t <= now
    /\ LET queue == {t \in workqueue : t > now}
           ps == fetchPolicyState(cfg)
           ts == ps.status.NextUpdateTimestamp
           wake == ts # Nil /\ ts[1] > now
       IN  IF shouldSkipConfig(cfg)
           THEN /\ workqueue' = queue
                /\ result' = Outcome("skip", << >>, NoRevision, 0)
                /\ UNCHANGED <<route, policystate, history>>
           ELSE IF ~configReady(cfg)
           THEN /\ workqueue' = followup(queue, now, WaitForReady * TicksPerSecond)
                /\ result' = Report(Outcome("notready", << >>, NoRevision, 0), "none",
                                    {WaitForReady * TicksPerSecond})
                /\ UNCHANGED <<route, policystate, history>>
           ELSE IF ~hasPolicyAnnotation(cfg)
           THEN /\ workqueue' = queue
                /\ result' = Outcome("nopolicy", << >>, NoRevision, 0)
                /\ UNCHANGED <<route, policystate, history>>
           ELSE IF fail = "getPolicyState" \/ (fail = "createPolicyState" /\ policystate = NoObject)
           THEN /\ workqueue' = queue
                /\ result' = Report(Outcome("error", << >>, cfg.LatestReadyRevisionName, 0),
                                    fail, {})
                /\ UNCHANGED <<route, policystate, history>>
           ELSE updateRoute(ps,
                            IF wake THEN followup(queue, now, ts[1] - now) ELSE queue,
                            IF wake THEN {ts[1] - now} ELSE {},
                            fail)
    /\ UNCHANGED <<now, revisionMap, cfg, policy, call>>

\* a reconciliation in which no call fails
ReconcileKind == Reconcile("none")

Next ==
    \/ CreateRevision
    \/ RevisionBecomesReady
    \/ Resync
    \/ Tick
    \/ RouteStatusEcho
    \/ ReconcileKind

Spec == Init /\ [][Next]_vars


-----------------------------------------------------------------------------
(* Properties of the reconciler *)

\* a reconciliation in which the planner emitted a plan
Planned == result.step \in {"stable", "rolling", "panic", "error"} /\ result.plan # << >>

Stable == route.spec = <<LatestTarget(cfg.Name)>>

\* the Route's status shows the plan published last
Echoed == route.status = ResolvedTraffic(route.spec)

\* nothing is left to happen unless another Revision is created: the
\* Configuration is ready, the last reconciliation planned for its newest ready
\* Revision, the Route's status shows the published plan and no key is pending
Settled ==
    /\ ~shouldSkipConfig(cfg) /\ configReady(cfg) /\ hasPolicyAnnotation(cfg)
    /\ Planned /\ result.newest = cfg.LatestReadyRevisionName
    /\ Echoed
    /\ workqueue = {}

\* C2: for a ready Configuration with a policy Validate admits, when no more
\* Revisions are created, every follow-up is delivered and the Route's status
\* shows the published plan, the published plan becomes the single entry of the
\* Configuration (latestRevision = true, 100 percent) and stays that: with no
\* delivery pending the published plan is that entry.
C2_RolloutCompletes == Settled => Stable

\* The same when one Revision alone has the earliest creation time.
C2_WithOneOldest ==
    (Settled /\ Cardinality(oldestRevision(revisionMap)) = 1) => Stable

\* C5: with the Route's status following the published plan, the entries of an
\* emitted plan of two or more entries that name a Revision are in the order of
\* the creation times of their Revisions, oldest first, and the last entry names
\* the newest ready Revision.
C5_OrderedByCreation ==
    (Planned /\ Len(result.plan) >= 2) =>
        /\ result.plan[Len(result.plan)].RevisionName = result.newest
        /\ \A i, j \in 1..Len(result.plan) :
              (/\ i < j
               /\ result.plan[i].RevisionName # NoRevision
               /\ result.plan[j].RevisionName # NoRevision)
              => /\ result.plan[i].RevisionName \in DOMAIN revisionMap
                 /\ result.plan[j].RevisionName \in DOMAIN revisionMap
                 /\ revisionMap[result.plan[i].RevisionName].created
                      <= revisionMap[result.plan[j].RevisionName].created

C5_Witness ==
    /\ Planned /\ Len(result.plan) >= 3
    /\ \A i \in 1..Len(result.plan) : result.plan[i].RevisionName # NoRevision
    /\ revisionMap[result.plan[1].RevisionName].created
         < revisionMap[result.plan[3].RevisionName].created

\* the Revisions of `old` still in `new` are the newest of `old`
FrontOnly(old, new) ==
    \A i, j \in 1..Len(old) : (i < j /\ old[i] \in Range(new)) => old[j] \in Range(new)

\* C6: from one published plan to the next Revisions leave from the front
\* only, and a Revision that was in a published plan and is absent from a later
\* one is in no plan published after that.
C6_PrunedFromFront ==
    /\ [](history.pruned \cap Range(history.roster) = {})
    /\ [][FrontOnly(history.roster, history.roster')]_vars

\* C6 (amended): at a reconciliation that finds the Route's status showing the
\* plan published last, Revisions leave the plan from the front only and no
\* Revision dropped from an earlier published plan is in the new one.
C6_PrunedFromFrontUnderEcho ==
    [][Echoed =>
         /\ FrontOnly(history.roster, history.roster')
         /\ history.pruned' \cap Range(history.roster') = {}]_vars

\* a Revision was dropped and a plan of two or more entries was published later
C6_Witness == history.pruned # {} /\ Len(history.roster) >= 2 /\ Echoed

-----------------------------------------------------------------------------
(* One reconciliation of the end-to-end scenarios: the objects as the scenario
   gives them, the clock running on for up to ScenarioSeconds seconds *)

Seconds(n) == n * TicksPerSecond

\* stages of the given percents, none with a threshold of its own
RECURSIVE StagesOf(_)
StagesOf(percents) ==
    IF percents = << >> THEN << >>
    ELSE <<Stage(Head(percents), Nil)>> \o StagesOf(Tail(percents))

\* {mode: time, defaultThreshold: 60, stages: [10, 50, 90]}
ScenarioPolicy == PolicySpec("time", 60, StagesOf(<<10, 50, 90>>))

\* {defaultThreshold: 5, stages: [1, 2, 3, 4, 5, 6, 7, 8, 99]}
SqueezePolicy == PolicySpec("time", 5, StagesOf(<<1, 2, 3, 4, 5, 6, 7, 8, 99>>))

\* policy A of the tests: the same with a stage of 0 percent in front
pa == PolicySpec("time", 5, StagesOf(<<0, 1, 2, 3, 4, 5, 6, 7, 8, 99>>))

\* makeTrafficTargetList(pairs): the traffic list of the <<name, percent>>
\* pairs, a single entry with LatestRevision true
makeTrafficTargetList(pairs) ==
    [i \in 1..Len(pairs) |->
        [RevisionTarget(pairs[i][1], pairs[i][2])
            EXCEPT !.LatestRevision = Ptr(Len(pairs) = 1)]]

\* T = 0 of the scenarios, 1000 s after the creation of R1
ScenarioStart == Seconds(1000)

\* the time of the squeeze-out scenario, R1 being ancient
SqueezeTime == Seconds(10000)

RevisionsOf(created) == [n \in DOMAIN created |-> Revision(created[n])]

Scenario(p, revisions, newest, status, clockNow) ==
    [policy |-> p, revisionMap |-> revisions, newest |-> newest,
     status |-> status, now |-> clockNow]

Scenarios ==
    \* scenarios 2 and 3: R1 and Rn under the scenario policy
    {Scenario(ScenarioPolicy,
              RevisionsOf([n \in {"R1", "Rn"} |-> IF n = "R1" THEN 0 ELSE ScenarioStart]),
              "Rn", makeTrafficTargetList(st), ScenarioStart + Seconds(t)) :
        st \in {<< <<"R1", 100>> >>, << <<"R1", 90>>, <<"Rn", 10>> >>},
        t \in 0..ScenarioSeconds}
    \cup
    \* scenario 4: R2 created 40 s ago (41 s in the tests), R3 33 s ago
    {Scenario(p,
              RevisionsOf([n \in {"R1", "R2", "R3"} |->
                              IF n = "R1" THEN 0
                              ELSE IF n = "R2" THEN SqueezeTime - Seconds(age)
                              ELSE SqueezeTime - Seconds(33)]),
              "R3", makeTrafficTargetList(<< <<"R1", 85>>, <<"R2", 8>>, <<"R3", 7>> >>),
              SqueezeTime + Seconds(t)) :
        p \in {SqueezePolicy, pa}, age \in {40, 41}, t \in 0..ScenarioSeconds}

InitScenario ==
    /\ \E sc \in Scenarios :
          /\ now = sc.now
          /\ revisionMap = sc.revisionMap
          /\ policy = sc.policy
          /\ route = [name |-> CfgName, spec |-> << >>, status |-> sc.status]
          /\ cfg = [Namespace |-> CfgNamespace, Name |-> CfgName, annotated |-> TRUE,
                    LatestCreatedRevisionName |-> sc.newest,
                    LatestReadyRevisionName |-> sc.newest]
    /\ policystate = NoObject
    /\ workqueue = {now}
    /\ result = NoResult
    /\ history = NoHistory
    /\ call = IdleCall

NextScenario == ReconcileKind

SpecScenario == InitScenario /\ [][NextScenario]_vars

Reconciled == result.step # "none"

\* C15: under {mode: time, defaultThreshold: 60, stages: [10, 50, 90]}, with
\* R1 created 1000 s before T = 0 and Rn at T = 0, the reconciliation at T = 0
\* from the status plan [(R1,100)] emits [(R1,90),(Rn,10)] and enqueues a
\* follow-up in 60 s, and the reconciliation at T = 60 s from the status plan
\* [(R1,90),(Rn,10)] emits [(R1,50),(Rn,50)] and enqueues a follow-up in 60 s.
C15_FreshAndMidRollout ==
    (Reconciled /\ policy = ScenarioPolicy) =>
        /\ (/\ now = ScenarioStart
            /\ route.status = makeTrafficTargetList(<< <<"R1", 100>> >>))
           => /\ result.plan = makeTrafficTargetList(<< <<"R1", 90>>, <<"Rn", 10>> >>)
              /\ result.delay = 60
              /\ workqueue = {now + Seconds(60)}
        /\ (/\ now = ScenarioStart + Seconds(60)
            /\ route.status = makeTrafficTargetList(<< <<"R1", 90>>, <<"Rn", 10>> >>))
           => /\ result.plan = makeTrafficTargetList(<< <<"R1", 50>>, <<"Rn", 50>> >>)
              /\ result.delay = 60
              /\ workqueue = {now + Seconds(60)}

\* what the two reconciliations of C15 do: Rn is served the percent of the
\* second stage from its creation and that of the third after 60 s, and the
\* follow-up is due in 61 s
C15_AsEvaluated ==
    (Reconciled /\ policy = ScenarioPolicy) =>
        /\ (/\ now = ScenarioStart
            /\ route.status = makeTrafficTargetList(<< <<"R1", 100>> >>))
           => /\ result.plan = makeTrafficTargetList(<< <<"R1", 50>>, <<"Rn", 50>> >>)
              /\ result.delay = 61
              /\ workqueue = {now + Seconds(61)}
        /\ (/\ now = ScenarioStart + Seconds(60)
            /\ route.status = makeTrafficTargetList(<< <<"R1", 90>>, <<"Rn", 10>> >>))
           => /\ result.plan = makeTrafficTargetList(<< <<"R1", 10>>, <<"Rn", 90>> >>)
              /\ result.delay = 61
              /\ workqueue = {now + Seconds(61)}

\* the squeeze-out scenario under policy p with R2 created age seconds ago
SqueezeCase(p, age) ==
    /\ Reconciled /\ policy = p
    /\ now = SqueezeTime
    /\ "R2" \in DOMAIN revisionMap
    /\ revisionMap["R2"].created = SqueezeTime - Seconds(age)

\* C16: under {defaultThreshold: 5, stages: [1,2,3,4,5,6,7,8,99]}, with R1
\* ancient, R2 created 40 s ago, R3 created 33 s ago and the status plan
\* [(R1,85),(R2,8),(R3,7)], the planner emits [(R2,93),(R3,7)].
C16_SqueezeOutExample ==
    SqueezeCase(SqueezePolicy, 40) =>
        result.plan = makeTrafficTargetList(<< <<"R2", 93>>, <<"R3", 7>> >>)

\* what the planner emits in the case of C16
C16_AsEvaluated ==
    SqueezeCase(SqueezePolicy, 40) =>
        result.plan = makeTrafficTargetList(<< <<"R2", 92>>, <<"R3", 8>> >>)

\* the case of the tests ("promotion, and pool size shrinks"): policy A, which
\* has a stage of 0 percent in front, and R2 created 41 s ago
C16_AsTested ==
    SqueezeCase(pa, 41) =>
        result.plan = makeTrafficTargetList(<< <<"R2", 93>>, <<"R3", 7>> >>)

\* the follow-ups pending for the Configuration once the due key is taken off
\* the queue
Pending == {t \in workqueue : t > now}

\* C18: readiness gate. A reconciliation of a Configuration other than the
\* controller's own whose latest ready Revision is not its latest created one,
\* or is none, enqueues one follow-up due in 5 seconds, ends without error and
\* neither creates nor updates a PolicyState or the Route.
C18_ReadinessGate ==
    [][(/\ ReconcileKind
        /\ ~(cfg.Namespace = KCDNamespace /\ cfg.Name = KCDName)
        /\ \/ cfg.LatestReadyRevisionName # cfg.LatestCreatedRevisionName
           \/ cfg.LatestReadyRevisionName = "")
       => /\ workqueue' = Pending \cup {now + 5 * TicksPerSecond}
          /\ result'.step = "notready"
          /\ UNCHANGED <<route, policystate>>]_vars

C18_Witness ==
    /\ result.step = "notready"
    /\ cfg.LatestReadyRevisionName # cfg.LatestCreatedRevisionName
    /\ cfg.LatestReadyRevisionName # ""
    /\ workqueue = {now + 5 * TicksPerSecond}
    /\ policystate = NoObject

\* C19: rollout is opt-in. A reconciliation of a ready Configuration without
\* the policy annotation ends without error, enqueues no follow-up, creates no
\* PolicyState and leaves the Route and the PolicyState as they were.
C19_OptIn ==
    [][(/\ ReconcileKind
        /\ ~(cfg.Namespace = KCDNamespace /\ cfg.Name = KCDName)
        /\ cfg.LatestReadyRevisionName = cfg.LatestCreatedRevisionName
        /\ cfg.LatestReadyRevisionName # ""
        /\ ~cfg.annotated)
       => /\ workqueue' = Pending
          /\ result'.step = "nopolicy"
          /\ UNCHANGED <<route, policystate>>]_vars

C19_Witness ==
    /\ result.step = "nopolicy"
    /\ ~cfg.annotated
    /\ Cardinality(DOMAIN revisionMap) >= 2
    /\ policystate = NoObject /\ route.spec = << >>

\* C20: self-event guard. A reconciliation of the Configuration whose
\* namespace and name are both the controller's own ends at once without error,
\* enqueues no follow-up and writes neither Route nor PolicyState; a
\* Configuration that shares only the namespace or only the name is not
\* skipped.
C20_SelfEventGuard ==
    [][ReconcileKind =>
         IF cfg.Namespace = KCDNamespace /\ cfg.Name = KCDName
         THEN /\ workqueue' = Pending
              /\ result'.step = "skip"
              /\ UNCHANGED <<route, policystate>>
         ELSE result'.step # "skip"]_vars

C20_Witness ==
    /\ result.step = "skip"
    /\ configReady(cfg)
    /\ workqueue = {} /\ policystate = NoObject /\ route.spec = << >>

C20_WitnessOnlyNamespace ==
    cfg.Namespace = KCDNamespace /\ cfg.Name # KCDName /\ result.step = "nopolicy"

C20_WitnessOnlyName ==
    cfg.Namespace # KCDNamespace /\ cfg.Name = KCDName /\ result.step = "notready"

-----------------------------------------------------------------------------
(* What a reconciliation schedules *)

\* the reconciliation emitted a plan whose first entry is the entry of the
\* Configuration (latestRevision = true)
EmitsStable ==
    result'.plan # << >> /\ result'.plan[1].LatestRevision = Ptr(TRUE)

EmitsRolling ==
    result'.plan # << >> /\ result'.plan[1].LatestRevision # Ptr(TRUE)

\* timeTillNextEvent of the plan the reconciliation emitted
DelayOf(plan, oldest) ==
    timeTillNextEvent([route EXCEPT !.spec = plan], revisionMap,
                      translatePolicy(policy), now, oldest)

\* the reconciliation called c.followup with timeTillNextEvent of its plan and
\* stored now + that delay as NextUpdateTimestamp
SchedulesNext ==
    \E oldest \in oldestRevision(revisionMap) :
        LET d == DelayOf(result'.plan, oldest)
            due == addDelay(now, d.result)
        IN  /\ ~d.err
            /\ d.result = result'.delay
            /\ d.result # 0 => (due - now) \in result'.followups /\ due \in workqueue'
            /\ policystate'.status.NextUpdateTimestamp = Ptr(due)
            /\ policystate'.spec.traffic = result'.plan

\* C29: a reconciliation that emits a plan whose first entry is not the
\* latestRevision = true entry enqueues a follow-up after timeTillNextEvent(plan)
\* whenever that delay is not zero, and the PolicyState it stores carries
\* NextUpdateTimestamp = now + delay, the time that follow-up is due.
C29_ScheduleNext ==
    [][(ReconcileKind /\ EmitsRolling) => SchedulesNext]_vars

\* C29 for the plans that hold no blank target
C29_WithoutBlankTargets ==
    [][(ReconcileKind /\ EmitsRolling
          /\ \A i \in 1..Len(result'.plan) : result'.plan[i] # BlankTarget)
        => SchedulesNext]_vars

C29_Witness ==
    /\ result.step = "rolling" /\ result.delay # 0 /\ result.delay < MaxInt32
    /\ policystate # NoObject
    /\ policystate.status.NextUpdateTimestamp # Nil
    /\ policystate.status.NextUpdateTimestamp[1] \in workqueue
    /\ result.followups # {}

\* the NextUpdateTimestamp ReconcileKind finds stored is later than now
WakeDue ==
    /\ policystate # NoObject
    /\ policystate.status.NextUpdateTimestamp # Nil
    /\ policystate.status.NextUpdateTimestamp[1] > now

\* C30: a reconciliation that emits a plan whose first entry is the
\* latestRevision = true entry stores a PolicyState without NextUpdateTimestamp
\* and enqueues no follow-up for the Configuration.
C30_StableLanding ==
    [][(ReconcileKind /\ EmitsStable) =>
          /\ policystate'.status.NextUpdateTimestamp = Nil
          /\ result'.followups = {}
          /\ workqueue' \subseteq workqueue]_vars

\* C30 as the code has it: the PolicyState stored has no NextUpdateTimestamp,
\* and the one follow-up the reconciliation can enqueue is the one for a
\* NextUpdateTimestamp it found stored that is later than now, due at that time.
C30_StableLandingButWake ==
    [][(ReconcileKind /\ EmitsStable) =>
          /\ policystate'.status.NextUpdateTimestamp = Nil
          /\ result'.followups =
                IF WakeDue THEN {policystate.status.NextUpdateTimestamp[1] - now} ELSE {}
          /\ workqueue' \subseteq
                workqueue \cup (IF WakeDue THEN {policystate.status.NextUpdateTimestamp[1]}
                                ELSE {})]_vars

\* a stable landing that found a NextUpdateTimestamp later than now, and one
\* that found none
C30_Witness ==
    /\ result.step = "stable" /\ result.followups # {}
    /\ policystate.status.NextUpdateTimestamp = Nil

C30_WitnessNoWake ==
    /\ result.step = "stable" /\ result.followups = {}
    /\ policystate.status.NextUpdateTimestamp = Nil
    /\ history.pruned # {}

-----------------------------------------------------------------------------
(* The reconciler when calls of the platform fail: one Configuration that opted
   in, with any Route status, any set of its Revisions left in the revision map
   (the platform deletes Revisions), and a PolicyState absent, fresh or
   carrying a time *)

\* a reconciliation in which one call of the platform returns an error
ReconcileKindFails ==
    \E fail \in Failures : Reconcile(fail) /\ result'.err = fail

\* the PolicyStates a reconciliation can find stored
StoredPolicyStates(c) ==
    {NoObject, MakePolicyState(c),
     [MakePolicyState(c) EXCEPT !.status.NextUpdateTimestamp = Ptr(FaultsNow + 1)]}

InitFaults ==
    /\ now = FaultsNow
    /\ revisionMap \in RevisionMapsUpTo(FaultsNow)
    /\ cfg \in {[Namespace |-> CfgNamespace, Name |-> CfgName, annotated |-> TRUE,
                 LatestCreatedRevisionName |-> n, LatestReadyRevisionName |-> n] :
                    n \in RevNames}
    /\ policy \in {p \in SystemPolicies : p.Stages[1].Percent # p.Stages[MaxStages].Percent}
    /\ route \in {[name |-> CfgName, spec |-> << >>, status |-> st] : st \in StatusTraffics}
    /\ \A n \in DOMAIN revisionMap \cup {route.status[i].RevisionName : i \in 1..Len(route.status)} :
           NameIndex(n) <= NameIndex(cfg.LatestReadyRevisionName)
    /\ policystate \in StoredPolicyStates(cfg)
    /\ workqueue = {now}
    /\ result = NoResult
    /\ history = NoHistory
    /\ call = IdleCall

NextFaults ==
    \/ ReconcileKind
    \/ ReconcileKindFails
    \/ Resync

SpecFaults == InitFaults /\ [][NextFaults]_vars

\* the Configuration passes the three gates of ReconcileKind
Gated == ~shouldSkipConfig(cfg) /\ configReady(cfg) /\ hasPolicyAnnotation(cfg)

\* a name of the roster is not in the revision map
AbsentInRoster == \E i \in 1..Len(Roster) : Roster[i] \notin DOMAIN revisionMap

\* a name of the roster is not in the revision map and the walk from the newest
\* end comes to it: the names after it are in the map, none of them can be the
\* oldest Revision, and their entitlements add up to less than 100
AbsentIsReached ==
    \E k \in 1..Len(Roster) :
        /\ Roster[k] \notin DOMAIN revisionMap
        /\ \A j \in (k + 1)..Len(Roster) :
              Roster[j] \in DOMAIN revisionMap /\ Roster[j] \notin oldestRevision(revisionMap)
        /\ EntitledFrom(Roster, k + 1) < 100

ReturnsError(err) == result'.step = "error" /\ result'.err = err /\ route' = route

\* C21: a failure of a read of the Route, the policy, the Revisions or the
\* PolicyState, of the creation or the update of the PolicyState, or of the
\* update of the Route, and a roster or plan entry naming a Revision that is
\* not in the revision map, each make ReconcileKind return that error, and the
\* stored Route is not updated with a plan in that reconciliation.
C21_ErrorsReturned ==
    [][/\ ReconcileKindFails => \E fail \in Failures : ReturnsError(fail)
       /\ (ReconcileKind /\ Gated /\ AbsentInRoster) => ReturnsError("missingRevision")]_vars

\* C21 for the failed calls and for the absent names the walk comes to
C21_WhenWalkReaches ==
    [][/\ ReconcileKindFails => \E fail \in Failures : ReturnsError(fail)
       /\ (ReconcileKind /\ Gated /\ AbsentIsReached) => ReturnsError("missingRevision")]_vars

C21_WitnessFailed == result.step = "error" /\ result.err \in Failures

C21_WitnessAbsent == result.step = "error" /\ result.err = "missingRevision"

\* C28: in one reconciliation the PolicyState is updated before the Route and
\* the Route only when the update of the PolicyState succeeded: a Route that
\* changes carries the plan the PolicyState stored in the same reconciliation
\* holds; a reconciliation that fails before or at the update of the
\* PolicyState leaves the stored PolicyState (once made) and the stored Route
\* as they were; one that fails at the update of the Route has stored the plan
\* in the PolicyState alone.
C28_OrderedPublish ==
    [][(ReconcileKind \/ ReconcileKindFails) =>
          /\ route' # route =>
                /\ result'.err = "none"
                /\ route'.spec = result'.plan
                /\ policystate'.spec.traffic = result'.plan
          /\ (result'.step \in {"error", "panic"} /\ result'.err # "updateRoute") =>
                /\ route' = route
                /\ policystate' \in {policystate, fetchPolicyState(cfg)}
          /\ result'.err = "updateRoute" =>
                /\ route' = route
                /\ policystate'.spec.traffic = result'.plan]_vars

\* the update of the PolicyState failed: the new plan is in neither object
C28_Witness ==
    /\ result.err = "updatePolicyState" /\ result.plan # << >>
    /\ route.spec # result.plan
    /\ policystate.spec.traffic # result.plan

\* the update of the Route failed: the new plan is in the PolicyState alone
C28_WitnessRoute ==
    /\ result.err = "updateRoute"
    /\ route.spec # result.plan
    /\ policystate.spec.traffic = result.plan

-----------------------------------------------------------------------------
(* The plan relay (ContinuousDeploymentRoute.SetDefaults, run at the admission
   of the Route) beside the reconciler *)

\* PolicyStates(ns).Update(ps) on the platform's store: the object written
\* replaces the stored one as a whole, whoever wrote that one
UpdateStored(stored, object) == object

\* SetDefaults up to its read: policyStateLister...Get(cdr.Name); when there is
\* no PolicyState it returns with the Route as it came
SetDefaultsGet ==
    /\ call.done
    /\ policystate # NoObject
    /\ call' = [op |-> "SetDefaults", done |-> FALSE, ps |-> policystate]
    /\ UNCHANGED <<now, revisionMap, cfg, policy, route, policystate, workqueue, result, history>>

\* SetDefaults writing the PolicyState back with the status it read
SetDefaultsUpdate_StatusKept ==
    /\ call.op = "SetDefaults" /\ ~call.done
    /\ \E ok \in BOOLEAN :
          /\ policystate' = IF ok THEN UpdateStored(policystate, call.ps) ELSE policystate
          /\ call' = [op |-> "SetDefaults", done |-> TRUE, ps |-> call.ps, stored |-> ok]
    /\ route' = [route EXCEPT !.spec = call.ps.spec.traffic]
    /\ UNCHANGED <<now, revisionMap, cfg, policy, workqueue, result, history>>

\* SetDefaults from copyRouteSpec on: the Route admitted takes the traffic of
\* the PolicyState read, which is written back with its status traffic set to
\* its spec traffic; an error of the Update is logged and nothing more
SetDefaultsUpdate ==
    /\ call.op = "SetDefaults" /\ ~call.done
    /\ LET ps == [call.ps EXCEPT !.status.traffic = call.ps.spec.traffic]
       IN  \E ok \in BOOLEAN :
             /\ policystate' = IF ok THEN UpdateStored(policystate, ps) ELSE policystate
             /\ call' = [op |-> "SetDefaults", done |-> TRUE, ps |-> call.ps, stored |-> ok]
    /\ route' = [route EXCEPT !.spec = call.ps.spec.traffic]
    /\ UNCHANGED <<now, revisionMap, cfg, policy, workqueue, result, history>>

InitRelay ==
    /\ InitFaults
    /\ policystate # NoObject

NextRelay ==
    \/ ReconcileKind
    \/ Resync
    \/ SetDefaultsGet
    \/ SetDefaultsUpdate

SpecRelay == InitRelay /\ [][NextRelay]_vars

\* the write leaves spec.traffic and status.nextUpdateTime as they are stored
KeepsSchedule ==
    /\ policystate'.spec = policystate.spec
    /\ policystate'.status.NextUpdateTimestamp = policystate.status.NextUpdateTimestamp

\* C22: however SetDefaults and the reconciliations of the same PolicyState
\* interleave, the write of SetDefaults changes status.traffic alone: the
\* spec.traffic and the status.nextUpdateTime stored after it are the ones the
\* reconciler wrote last.
C22_RelayKeepsSchedule ==
    [][SetDefaultsUpdate => KeepsSchedule]_vars

\* C22 when no reconciliation wrote the PolicyState between the read and the
\* write of SetDefaults
C22_WithoutInterleaving ==
    [][(SetDefaultsUpdate /\ call.ps = policystate) => KeepsSchedule]_vars

\* SetDefaults wrote back a PolicyState read before a reconciliation stored a plan
C22_WitnessInterleaved ==
    /\ call.op = "SetDefaults" /\ call.done /\ call.stored
    /\ result.step \in {"stable", "rolling"}
    /\ policystate.spec.traffic # result.plan

-----------------------------------------------------------------------------
(* The wake for a stored NextUpdateTimestamp *)

\* the reconciliation called c.followup with the time left to the stored
\* NextUpdateTimestamp, and the key is due at that time
WakeEnqueued ==
    LET ts == policystate.status.NextUpdateTimestamp[1]
    IN  /\ (ts - now) \in result'.followups
        /\ ts \in workqueue'

\* the reconciliation went on to plan and stored its plan in the PolicyState
\* and in the Route
PlanPublished ==
    /\ result'.step \in {"stable", "rolling"}
    /\ result'.plan # << >>
    /\ policystate'.spec.traffic = result'.plan
    /\ route'.spec = result'.plan

\* C31: a reconciliation of a ready Configuration with a policy annotation that
\* finds a PolicyState whose NextUpdateTimestamp is later than now enqueues a
\* follow-up after exactly NextUpdateTimestamp - now and still computes and
\* publishes the plan in the same reconciliation.
C31_RestartSafeWake ==
    [][(ReconcileKind /\ Gated /\ WakeDue) => (WakeEnqueued /\ PlanPublished)]_vars

\* C31 for the reconciliations that do not panic: the follow-up is enqueued
\* before updateRoute plans
C31_UnlessPanic ==
    [][(ReconcileKind /\ Gated /\ WakeDue /\ result'.step # "panic")
          => (WakeEnqueued /\ PlanPublished)]_vars

C31_Witness ==
    /\ result.step \in {"stable", "rolling"}
    /\ \E d \in result.followups : d # result.delay * TicksPerSecond /\ now + d \in workqueue

-----------------------------------------------------------------------------
(* After a failed update of the Route: the reconciler with that one failure and
   the retries of the work queue *)

\* the work queue takes up again, after a backoff of up to MaxBackoff ticks,
\* the key of a reconciliation that returned the error of Routes.Update
Retry ==
    /\ result.err = "updateRoute"
    /\ \E d \in 0..MaxBackoff :
          /\ now + d <= FaultsNow + MaxBackoff
          /\ now' = now + d
          /\ workqueue' = workqueue \cup {now + d}
    /\ UNCHANGED <<revisionMap, cfg, policy, route, policystate, result, history, call>>

\* a reconciliation whose update of the Route fails
ReconcileKindFailsAtRoute ==
    Reconcile("updateRoute") /\ result'.err = "updateRoute"

NextHeal ==
    \/ ReconcileKind
    \/ ReconcileKindFailsAtRoute
    \/ Retry

SpecHeal == InitFaults /\ [][NextHeal]_vars

\* the plan is one modifyRouteSpec computes now from the stored Route status,
\* Revisions and policy
PlannedNow(plan) ==
    \E oldest \in oldestRevision(revisionMap) :
        LET out == modifyRouteSpec(route, revisionMap, cfg.LatestReadyRevisionName,
                                   translatePolicy(policy), now, oldest)
        IN  ~out.err /\ out.route.spec = plan

\* C32: when a reconciliation stored its plan in the PolicyState and failed to
\* update the Route, the next reconciliation of the Configuration that runs to
\* its end, with the Revisions, the policy and the Route status as they were,
\* leaves the plan the planner computes at that time in PolicyState.spec.traffic
\* and in route.spec.traffic.
C32_SelfHealing ==
    [][(ReconcileKind /\ result.err = "updateRoute"
          /\ result'.step \in {"stable", "rolling"}) =>
             /\ PlannedNow(result'.plan)
             /\ policystate'.spec.traffic = result'.plan
             /\ route'.spec = result'.plan]_vars

\* the reconciliation after a failed update of the Route ran to its end, at a
\* later time (time passes in a retry only), and the Route holds its plan
C32_Witness ==
    /\ result.step = "rolling"
    /\ now > FaultsNow
    /\ route.spec = result.plan

----------------------------------------------------------------------------
(* Accumulation of the violated checks in the error Validate returns *)

Reported(e) == \E k \in 1..Len(call.errs) : call.errs[k] = e

Occurrences(e) == Cardinality({k \in 1..Len(call.errs) : call.errs[k] = e})

\* the per-stage checks of Validate, each as violated by some stage of p
BoundsViolated(p) ==
    \E k \in 1..Len(p.Stages) : p.Stages[k].Percent < 0 \/ p.Stages[k].Percent >= 100

OrderViolated(p) ==
    \E k \in 2..Len(p.Stages) : p.Stages[k].Percent < p.Stages[k - 1].Percent

ThresholdViolated(p) ==
    \E k \in 1..Len(p.Stages) :
        p.Stages[k].Threshold # Nil /\ p.Stages[k].Threshold[1] <= 0

\* C33: the error Validate returns reports every violated check: the mode,
\* the defaultThreshold and each of the per-stage checks (percent bounds,
\* percent order, explicit threshold) some stage violates; an empty stages
\* list is reported without per-stage errors, and the percent order is
\* reported at most once.
C33_AccumulatesAll ==
    (call.op = "Validate" /\ call.done) =>
        /\ policy.Mode # "time" => Reported("ErrInvalidValue spec.mode")
        /\ policy.DefaultThreshold <= 0 =>
               Reported("DefaultThreshold value is mandatory and must be a positive integer")
        /\ Len(policy.Stages) < 1 =>
               Reported("There must be at least one rollout stage in a Policy")
        /\ BoundsViolated(policy) => Reported("ErrOutOfBoundsValue")
        /\ OrderViolated(policy) =>
               Reported("Rollout percentages must be in increasing order")
        /\ ThresholdViolated(policy) =>
               Reported("Optional threshold value must be a positive integer")
        /\ Occurrences("Rollout percentages must be in increasing order") <= 1

\* the first stage that fails one of the per-stage checks, 0 when none does
FirstOffending(p) ==
    LET bad == {k \in 1..Len(p.Stages) :
                   ValidateStage(p.Stages[k],
                                 IF k = 1 THEN 0 ELSE p.Stages[k - 1].Percent) # ""}
    IN  IF bad = {} THEN 0 ELSE CHOOSE k \in bad : \A j \in bad : k <= j

\* What Validate accumulates: the mode and the defaultThreshold errors
\* always, and of the per-stage checks one error only, that of the first
\* offending stage.
C33_FirstStageOnly ==
    (call.op = "Validate" /\ call.done) =>
        /\ policy.Mode # "time" => Reported("ErrInvalidValue spec.mode")
        /\ policy.DefaultThreshold <= 0 =>
               Reported("DefaultThreshold value is mandatory and must be a positive integer")
        /\ Len(policy.Stages) < 1 =>
               Reported("There must be at least one rollout stage in a Policy")
        /\ Occurrences("ErrOutOfBoundsValue")
             + Occurrences("Rollout percentages must be in increasing order")
             + Occurrences("Optional threshold value must be a positive integer")
             = IF FirstOffending(policy) = 0 THEN 0 ELSE 1

\* a policy violating the mode, the defaultThreshold and two per-stage checks
C33_Witness ==
    /\ call.op = "Validate" /\ call.done
    /\ policy.Mode # "time" /\ policy.DefaultThreshold <= 0
    /\ BoundsViolated(policy) /\ ThresholdViolated(policy)
    /\ Len(call.errs) = 3

----------------------------------------------------------------------------
(* The admission of a Route with and without a PolicyState of its name *)

\* SetDefaults when policyStateLister...Get(cdr.Name) returns an error: there
\* is no PolicyState of the Route's namespace and name, and it returns
SetDefaultsNotFound ==
    /\ call.done
    /\ policystate = NoObject
    /\ call' = [op |-> "SetDefaults", done |-> TRUE, ps |-> NoObject, stored |-> FALSE]
    /\ UNCHANGED <<now, revisionMap, cfg, policy, route, policystate, workqueue, result, history>>

NextAdmit ==
    \/ ReconcileKind
    \/ Resync
    \/ SetDefaultsNotFound
    \/ SetDefaultsGet
    \/ SetDefaultsUpdate

SpecAdmit == InitFaults /\ [][NextAdmit]_vars

\* C34: when a PolicyState of the Route's namespace and name exists,
\* SetDefaults sets the Route's spec traffic to the PolicyState's spec traffic
\* and its Update stores the PolicyState with status traffic equal to spec
\* traffic; when none exists the Route is left as it is and no PolicyState is
\* written.
C34_PlanRelay ==
    [][/\ (SetDefaultsUpdate /\ call'.stored) =>
              /\ route'.spec = call.ps.spec.traffic
              /\ policystate'.spec.traffic = route'.spec
              /\ policystate'.status.traffic = policystate'.spec.traffic
       /\ SetDefaultsUpdate => route'.spec = call.ps.spec.traffic
       /\ SetDefaultsNotFound => (route' = route /\ policystate' = NoObject)]_vars

\* SetDefaults stored a PolicyState whose status traffic it had to change
C34_Witness ==
    /\ call.op = "SetDefaults" /\ call.done /\ call.stored
    /\ call.ps.status.traffic # call.ps.spec.traffic
    /\ call.ps.spec.traffic # << >>
    /\ route.spec = call.ps.spec.traffic
    /\ policystate.status.traffic = policystate.spec.traffic

\* SetDefaults returned for want of a PolicyState
C34_WitnessNotFound ==
    /\ call.op = "SetDefaults" /\ call.done
    /\ call.ps = NoObject
    /\ policystate = NoObject

----------------------------------------------------------------------------
(* Two Configurations reconciled side by side.  In this specification cfg,
   route, policystate, workqueue and result map the name of a Configuration
   to its object, and revisionMap is the store of the Revisions of both. *)

OtherCfgName == "other"
\* the last tick of the clock where two Configurations are reconciled
ParallelNow == 3
ParallelNames == {CfgName, OtherCfgName}
ParallelRevs(k) == IF k = CfgName THEN <<"R1", "R2">> ELSE <<"R3", "R4">>

\* fetchRevisions(cfg): the Revisions the lister selects by the label of the
\* Configuration
fetchRevisions(store, c) ==
    [n \in {m \in DOMAIN store : store[m].owner = c.Name} |-> store[n]]

\* fetchRoute(ctx, cfg): routeLister.Routes(cfg.Namespace).Get(cfg.Name)
fetchRouteOf(routes, c) == routes[c.Name]

\* fetchPolicyState that gets, or makes, the PolicyState of one fixed name
fetchPolicyStateOf_Fixed(policystates, c) ==
    IF policystates[CfgName] = NoObject
    THEN [MakePolicyState(c) EXCEPT !.name = CfgName]
    ELSE policystates[CfgName]

\* policystateLister.PolicyStates(cfg.Namespace).Get(cfg.Name), and the
\* PolicyState made of cfg when there is none
fetchPolicyStateOf(policystates, c) ==
    IF policystates[c.Name] = NoObject THEN MakePolicyState(c) ELSE policystates[c.Name]

\* Update(object) of a client: the object stored under the object's own name
UpdateNamed(objects, object) == [objects EXCEPT ![object.name] = object]

\* the stores a reconciliation reads and writes
Stores ==
    [route |-> route, policystate |-> policystate, workqueue |-> workqueue, result |-> result]

\* a reconciliation that ends before applyChanges stores anything but the
\* PolicyState made on demand
EndedOf(st, ps, queue, res) ==
    [st EXCEPT !.policystate = UpdateNamed(st.policystate, ps),
               !.workqueue[ps.name] = queue,
               !.result[ps.name] = res]

\* applyChanges for the Configuration c on the stores st; a panic ends the
\* process, and the work queue of every Configuration with it
applyChangesOf(st, c, planned, ps, queue, sent, oldest) ==
    LET plan == planned.spec
        newest == c.LatestReadyRevisionName
        stable == plan[1].LatestRevision = Ptr(TRUE)
        next == timeTillNextEvent(planned, fetchRevisions(revisionMap, c),
                                  translatePolicy(policy), now, oldest)
        due == addDelay(now, next.result)
        enqueue == ~stable /\ next.result # 0
        queued == IF enqueue THEN followup(queue, now, due - now) ELSE queue
        called == IF enqueue THEN sent \cup {due - now} ELSE sent
        updated == [ps EXCEPT !.spec.traffic = plan,
                              !.status.NextUpdateTimestamp = nextUpdateTimestamp(plan, due)]
    IN  IF plan[1].LatestRevision = Nil
        THEN [EndedOf(st, ps, queue, Report(Outcome("panic", plan, newest, 0), "none", sent))
                 EXCEPT !.workqueue = [j \in ParallelNames |-> {}]]
        ELSE IF ~stable /\ next.err
        THEN EndedOf(st, ps, queue,
                     Report(Outcome("error", plan, newest, 0), "missingRevision", sent))
        ELSE [st EXCEPT !.policystate = UpdateNamed(st.policystate, updated),
                        !.route = UpdateNamed(st.route, planned),
                        !.workqueue[c.Name] = queued,
                        !.result[c.Name] =
                            Report(Outcome(IF stable THEN "stable" ELSE "rolling", plan, newest,
                                           IF stable THEN 0 ELSE next.result),
                                   "none", called)]

\* ReconcileKind(ctx, cfg) for the Configuration named k on the stores st, no
\* call failing: the stores it leaves
reconcileOf(k, st, oldest, oldestAgain) ==
    LET c == cfg[k]
        queue == {t \in st.workqueue[k] : t > now}
        ps == fetchPolicyStateOf(st.policystate, c)
        ts == ps.status.NextUpdateTimestamp
        wake == ts # Nil /\ ts[1] > now
        woken == IF wake THEN followup(queue, now, ts[1] - now) ELSE queue
        sent == IF wake THEN {ts[1] - now} ELSE {}
        out == modifyRouteSpec(fetchRouteOf(st.route, c), fetchRevisions(revisionMap, c),
                               c.LatestReadyRevisionName, translatePolicy(policy), now, oldest)
    IN  IF shouldSkipConfig(c)
        THEN [st EXCEPT !.workqueue[k] = queue,
                        !.result[k] = Outcome("skip", << >>, NoRevision, 0)]
        ELSE IF ~configReady(c)
        THEN [st EXCEPT !.workqueue[k] = followup(queue, now, WaitForReady * TicksPerSecond),
                        !.result[k] = Report(Outcome("notready", << >>, NoRevision, 0), "none",
                                             {WaitForReady * TicksPerSecond})]
        ELSE IF ~hasPolicyAnnotation(c)
        THEN [st EXCEPT !.workqueue[k] = queue,
                        !.result[k] = Outcome("nopolicy", << >>, NoRevision, 0)]
        ELSE IF out.err
        THEN EndedOf(st, ps, woken,
                     Report(Outcome("error", << >>, c.LatestReadyRevisionName, 0),
                            "missingRevision", sent))
        ELSE applyChangesOf(st, c, out.route, ps, woken, sent, oldestAgain)

\* the reconciliation of the Configuration named k, its key due in the queue
ReconcileKindOf(k) ==
    /\ \E t \in workqueue[k] : t <= now
    /\ \E oldest \in oldestRevision(fetchRevisions(revisionMap, cfg[k])),
          oldestAgain \in oldestRevision(fetchRevisions(revisionMap, cfg[k])) :
          LET st == reconcileOf(k, Stores, oldest, oldestAgain)
          IN  /\ route' = st.route
              /\ policystate' = st.policystate
              /\ workqueue' = st.workqueue
              /\ result' = st.result
    /\ UNCHANGED <<now, revisionMap, cfg, policy, history, call>>

\* the platform's Route controller brings the status of the Route named k to
\* its spec
RouteStatusEchoOf(k) ==
    LET resolved == [i \in 1..Len(route[k].spec) |->
                        IF route[k].spec[i].LatestRevision = Ptr(TRUE)
                        THEN [route[k].spec[i] EXCEPT
                                 !.RevisionName = cfg[k].LatestReadyRevisionName,
                                 !.ConfigurationName = ""]
                        ELSE route[k].spec[i]]
    IN  /\ route[k].spec # << >>
        /\ route[k].status # resolved
        /\ route' = [route EXCEPT ![k].status = resolved]
        /\ UNCHANGED <<now, revisionMap, cfg, policy, policystate, workqueue, result, history, call>>

\* the informer resyncs: the keys of all Configurations are enqueued
ResyncAll ==
    /\ \A k \in ParallelNames : workqueue[k] = {}
    /\ workqueue' = [k \in ParallelNames |-> {now}]
    /\ UNCHANGED <<now, revisionMap, cfg, policy, route, policystate, result, history, call>>

InitParallel ==
    /\ now = 0
    /\ \E newer \in [ParallelNames -> 0..MaxCreate] :
          revisionMap = [n \in {ParallelRevs(k)[i] : k \in ParallelNames, i \in 1..2} |->
                            LET k == CHOOSE j \in ParallelNames :
                                         n \in {ParallelRevs(j)[1], ParallelRevs(j)[2]}
                            IN  [created |-> IF n = ParallelRevs(k)[1] THEN 0 ELSE newer[k],
                                 owner |-> k]]
    /\ cfg = [k \in ParallelNames |->
                 [Namespace |-> CfgNamespace, Name |-> k, annotated |-> TRUE,
                  LatestCreatedRevisionName |-> ParallelRevs(k)[2],
                  LatestReadyRevisionName |-> ParallelRevs(k)[2]]]
    /\ policy \in {p \in SystemPolicies : p.Stages[1].Percent # p.Stages[MaxStages].Percent}
    /\ route \in [ParallelNames -> [name : ParallelNames, spec : {<< >>}, status : StatusTraffics]]
    /\ \A k \in ParallelNames :
          /\ route[k].name = k
          /\ route[k].status \in {StatusTraffic(<<ParallelRevs(k)[1]>>),
                                  StatusTraffic(ParallelRevs(k))}
    /\ policystate \in [ParallelNames -> {NoObject} \cup {MakePolicyState(cfg[k]) : k \in ParallelNames}]
    /\ \A k \in ParallelNames : policystate[k] # NoObject => policystate[k].name = k
    /\ workqueue = [k \in ParallelNames |-> {0}]
    /\ result = [k \in ParallelNames |-> NoResult]
    /\ history = NoHistory
    /\ call = IdleCall

TickParallel ==
    /\ now < ParallelNow
    /\ now' = now + 1
    /\ UNCHANGED <<revisionMap, cfg, policy, route, policystate, workqueue, result, history, call>>

NextParallel ==
    \/ \E k \in ParallelNames : ReconcileKindOf(k)
    \/ \E k \in ParallelNames : RouteStatusEchoOf(k)
    \/ ResyncAll
    \/ TickParallel

SpecParallel == InitParallel /\ [][NextParallel]_vars

\* the objects of the Configuration named k in the stores st
ObjectsOf(st, k) == <<st.route[k], st.policystate[k]>>

\* C35: a reconciliation of one Configuration creates or updates only the
\* PolicyState and the Route of that Configuration's name, and the objects
\* of another Configuration after a reconciliation of it are the same whether
\* or not a reconciliation of the first ran before it.
C35_Independent ==
    \A a \in ParallelNames : \A b \in ParallelNames \ {a} :
        \A oa \in oldestRevision(fetchRevisions(revisionMap, cfg[a])),
           oa2 \in oldestRevision(fetchRevisions(revisionMap, cfg[a])),
           ob \in oldestRevision(fetchRevisions(revisionMap, cfg[b])),
           ob2 \in oldestRevision(fetchRevisions(revisionMap, cfg[b])) :
            LET afterA == reconcileOf(a, Stores, oa, oa2)
            IN  /\ ObjectsOf(afterA, b) = ObjectsOf(Stores, b)
                /\ ObjectsOf(reconcileOf(b, afterA, ob, ob2), b)
                     = ObjectsOf(reconcileOf(b, Stores, ob, ob2), b)

\* both Configurations are in a rollout a reconciliation published, that of
\* the one reconciled after that of the other
C35_Witness ==
    /\ \A k \in ParallelNames :
          /\ result[k].step = "rolling"
          /\ policystate[k] # NoObject
          /\ route[k].spec = policystate[k].spec.traffic
          /\ route[k].spec # << >>
    /\ route[CfgName].spec # route[OtherCfgName].spec

----------------------------------------------------------------------------
(* The share of the newest Revision over the plans published *)

\* the percent the plan `traffic`, its entries standing for `names`, gives to
\* the Revision n; the target of the Configuration stands for its latest ready
\* Revision and carries 100
RECURSIVE PercentOfName(_, _, _, _)
PercentOfName(traffic, names, n, i) ==
    IF i > Len(traffic) THEN 0
    ELSE (IF names[i] = n THEN traffic[i].Percent[1] ELSE 0)
             + PercentOfName(traffic, names, n, i + 1)

\* the newest ready Revision is the one the plan published last was made for
SameNewest ==
    /\ history.roster # << >>
    /\ history.roster[Len(history.roster)] = cfg.LatestReadyRevisionName

\* C36: while a Revision remains the newest ready Revision of its
\* Configuration, the percent a published plan gives it is not smaller than
\* the percent the plan published before gave it, the stable singleton
\* counting as 100.
C36_NoRollback ==
    [][(ReconcileKind /\ result'.step \in {"stable", "rolling"} /\ SameNewest) =>
          PercentOfName(route'.spec, history'.roster, cfg.LatestReadyRevisionName, 1)
            >= PercentOfName(route.spec, history.roster, cfg.LatestReadyRevisionName, 1)]_vars

\* the plan published gives the newest Revision more than the plan before it,
\* which the Route's status still shows
C36_Witness ==
    /\ result.step = "rolling"
    /\ SameNewest
    /\ LET statusNames == [i \in 1..Len(route.status) |-> route.status[i].RevisionName]
           before == PercentOfName(route.status, statusNames, cfg.LatestReadyRevisionName, 1)
       IN  /\ before > 0
           /\ PercentOfName(route.spec, history.roster, cfg.LatestReadyRevisionName, 1) > before

----------------------------------------------------------------------------
(* The wake-up of a rollout in progress *)

\* the reconciliation enqueued a follow-up after a delay of at least one
\* second and less than MaxInt32 seconds
RealWakeUp ==
    /\ result'.delay >= 1
    /\ result'.delay < MaxInt32
    /\ (result'.delay * TicksPerSecond) \in result'.followups
    /\ (now + result'.delay * TicksPerSecond) \in workqueue'

\* C37: whenever a reconciliation emits a plan that is not the stable
\* singleton, the delay it computes with timeTillNextEvent is at least 1 second
\* and less than MaxInt32 seconds, and a follow-up after that delay is pending
\* when the reconciliation ends.
C37_RealWakeUp ==
    [][(ReconcileKind /\ EmitsRolling) => RealWakeUp]_vars

\* C37 for the plans that hold no blank target
C37_WithoutBlankTargets ==
    [][(ReconcileKind /\ EmitsRolling
          /\ \A i \in 1..Len(result'.plan) : result'.plan[i] # BlankTarget)
        => RealWakeUp]_vars

----------------------------------------------------------------------------
(* The entries of an emitted plan *)

\* the target carries a percent and a latestRevision flag and names a
\* Revision of the roster or the Configuration
Populated(t) ==
    /\ t.Percent # Nil
    /\ t.LatestRevision # Nil
    /\ \/ t.RevisionName \in Range(Roster)
       \/ t.ConfigurationName = cfg.Name

\* C38: every entry of a plan modifyRouteSpec emits without error carries a
\* percent and a latestRevision flag and names a Revision of the roster or the
\* Configuration; none is a blank target left from the roster positions older
\* than the one where the walk stopped.
C38_FullyPopulated ==
    Emitted => \A i \in 1..Len(call.traffic) : Populated(call.traffic[i])

\* The entries that are not populated are blank targets in front of the
\* entry of the Revision oldestRevision returned, where the walk broke.
C38_BlankBeforeOldest ==
    Emitted =>
        \A i \in 1..Len(call.traffic) :
            \/ Populated(call.traffic[i])
            \/ /\ call.traffic[i] = BlankTarget
               /\ \E j \in (i + 1)..Len(call.traffic) :
                      /\ call.traffic[j].RevisionName = call.oldest
                      /\ \A m \in j..Len(call.traffic) : Populated(call.traffic[m])

----------------------------------------------------------------------------
(* The plan a stored PolicyState carries, from its creation on *)

\* no PolicyState is stored yet: the first reconciliation makes it
InitInstall ==
    /\ InitFaults
    /\ policystate = NoObject

NextInstall ==
    \/ ReconcileKind
    \/ ReconcileKindFails
    \/ Resync
    \/ SetDefaultsNotFound
    \/ SetDefaultsGet
    \/ SetDefaultsUpdate

SpecInstall == InitInstall /\ [][NextInstall]_vars

\* a plan with entries whose percents add up to 100
FullPlan(traffic) == traffic # << >> /\ SumPercents(traffic) = 100

\* C39: whenever a PolicyState is stored, from its creation on and after
\* reconciliations that failed, its spec traffic is a non-empty plan whose
\* percents add up to 100, and the traffic SetDefaults copies into a Route
\* is not empty.
C39_NeverEmptyPlan ==
    /\ policystate # NoObject => FullPlan(policystate.spec.traffic)
    /\ (call.op = "SetDefaults" /\ call.done /\ call.ps # NoObject) => route.spec # << >>

\* Once a reconciliation stored a plan in the PolicyState no reconciliation
\* empties its spec traffic again (SetDefaults does when it writes back a
\* PolicyState it read before that), what SetDefaults copies of a plan with
\* entries has entries, and every reconciliation that ends without error
\* stores a plan with entries.
C39_AfterFirstPublish ==
    /\ [][(policystate # NoObject /\ policystate.spec.traffic # << >> /\ ~SetDefaultsUpdate)
            => policystate'.spec.traffic # << >>]_vars
    /\ [][(SetDefaultsUpdate /\ call.ps.spec.traffic # << >>) => route'.spec # << >>]_vars
    /\ [][(ReconcileKind /\ result'.step \in {"stable", "rolling"})
            => policystate'.spec.traffic # << >>]_vars

----------------------------------------------------------------------------
(* The follow-ups pending after a reconciliation *)

WakeTime == IF WakeDue THEN {policystate.status.NextUpdateTimestamp[1]} ELSE {}

NextTime ==
    IF result'.step = "rolling" THEN {policystate'.status.NextUpdateTimestamp[1]} ELSE {}

PollTime ==
    IF result'.step = "notready" THEN {now + WaitForReady * TicksPerSecond} ELSE {}

====
